---- MODULE Spec2Model ----
(***************************************************************************)
(* SearchGram ingestor: the history Sync Manager (sync_manager.py), its    *)
(* HTTP control API (sync_api.py, jwt_auth.py) and the Buffered Indexer    *)
(* (buffered_engine.py), as state machines over threads.                   *)
(*                                                                         *)
(* Three specifications share the variables:                               *)
(*   Spec     the manager driven by configuration: the worker thread, the  *)
(*            sync_history_new thread, upstream and engine failures, and   *)
(*            process restarts from the checkpoint file;                   *)
(*   SpecApi  the manager driven by HTTP requests: the worker thread, the  *)
(*            request thread and the thread POST /sync spawns;             *)
(*   SpecBuf  the Buffered Indexer: a producer, the flush worker and the   *)
(*            thread that calls shutdown.                                  *)
(***************************************************************************)
EXTENDS Integers, Sequences, FiniteSets, TLC

\* ------------------------------------------------------------------------
\* Bounds of the model
\* ------------------------------------------------------------------------
NumChats == 1
HistLen == 3
MaxRestarts == 1
MaxFaults == 2
MaxResync == 0
MaxMsgs == 3
MaxTime == 2
MaxTasks == 4
MaxCalls == 3
MaxInodes == 3
delay == 1
token_ttl == 1
page_size == 2
MAX_PAGE == 3

Chats == 1..NumChats

\* Configuration values (config_loader.py, client.py), scaled to the model
SYNC_BATCH_SIZE == 2
SYNC_MAX_RETRIES == 2
SYNC_RETRY_ON_ERROR == TRUE
SYNC_RESUME_ON_RESTART == TRUE
SYNC_CLEAR_COMPLETED == FALSE
batch_size == 2

\* ------------------------------------------------------------------------
\* Threads
\* ------------------------------------------------------------------------
W == "w"
A == "a"
Spawned == {"s1"}
Reqs == {"r1"}
SyncThreads == {W, A} \cup Spawned
Threads == SyncThreads \cup Reqs

\* Buffered Indexer: producer (message handler), flush worker, main thread
P == "p"
F == "f"
M == "m"
BufThreads == {P, F, M}

ObjIds == 1..(NumChats + Cardinality(SyncThreads))

VARIABLES
    pm_order,      \* progress_map: key order of the dict
    pm,            \* progress_map: chat id -> object (0: key absent)
    objs,          \* heap of SyncProgress objects
    lock,          \* SyncManager.lock: "free" or the holding thread
    pc,            \* position of every thread
    loc,           \* locals of every thread
    current_sync,  \* SyncManager._current_sync_chat_id (0: None)
    file,          \* checkpoint file: list of the "chats" records
    engine_docs,   \* documents the search engine holds, <<chat, id>>
    jwt_auth,      \* sync_api._jwt_auth
    cfg,           \* configuration read at start-up
    resp,          \* last HTTP status sent by each request thread (0: none)
    restarts,      \* process restarts so far
    faults,        \* upstream / engine failures and late messages so far
    g_acked,       \* ghost: documents that were part of an answered batch
    g_sent,        \* ghost: documents sent to the engine since the start
    g_loaded,      \* ghost: chat -> record as loaded at the last start
    g_tainted,     \* ghost: chat -> its sync met a failure, a pause, an
                   \*        overlap or a late message
    g_pause,       \* ghost: object -> batch upserts since PauseChat (-1: none)
    g_epoch,       \* ghost: chat -> number of records created for it
    buffer,        \* BufferedSearchEngine.buffer
    block,         \* BufferedSearchEngine.lock is locked
    bowner,        \* ghost: the thread whose acquire locked it ("none")
    bpc,           \* position of every Buffered Indexer thread
    bloc,          \* locals of every Buffered Indexer thread
    stats,         \* BufferedSearchEngine.stats
    stop_event,    \* BufferedSearchEngine.stop_event
    arrived,       \* messages the producer has handed over so far
    now,           \* the clock, in seconds
    held,          \* the token generate_token returned last (NoJwt: none)
    verdict,       \* the verify_token call just made and its outcome
    pyjwt,         \* the installed PyJWT: what jwt.decode does at the limits
    blocked_users, \* PrivacyManager._blocked_users
    reply,         \* the search response the bot sent last
    deletion_tasks,\* bot.deletion_tasks: message key -> task (0: no entry)
    tasks,         \* the delete_message tasks created so far
    ready,         \* the event loop's queue of steps that are ready to run
    cbs,           \* position of every callback-query handler
    msg,           \* message key -> the paginated reply: unsent, shown or
                   \*                deleted, and the task that deleted it
    g_resched,     \* ghost: message key -> time of the latest re-schedule
    g_touch,       \* ghost: message key -> tasks that existed at the
                   \*        latest interaction
    progress_map,  \* SyncManager.progress_map as a list in key order
    checkpoint_file, \* the "chats" list of the checkpoint file
    g_calls,       \* ghost: the latest calls made on the Sync Manager
    disk,          \* the paths <file>.tmp and <file> and the files' bytes
    savers,        \* the threads inside _save_checkpoint
    running,       \* SyncManager._running
    worker_thread, \* SyncManager._worker_thread (0: None)
    workers,       \* the SyncWorker threads created so far
    ctl,           \* position of the thread calling start/stop_worker
    messages,      \* MessageStore: the rows of table messages, by rowid
    g_enqueued,    \* ghost: the ids enqueue has returned, in call order
    deq,           \* the latest dequeue call and what it returned
    acks,          \* ghost: the rows acknowledge has deleted
    modes,         \* AccessController.modes
    decision,      \* the check_access call just made and its outcome
    privacy_file,  \* the privacy file: absent, or the JSON list it holds
    pcall,         \* the block_user / unblock_user call that returned last
    tg,            \* Telegram's copy of one message: its version, deleted
    doc,           \* the search engine's document of that message
    lv,            \* the live path: the indexer's buffer and its batch
    bf,            \* the backfill: sync_chat's copy of the message
    lp             \* sync_chat's loop over the history, message by message

syncVars == <<pm_order, pm, objs, lock, pc, loc, current_sync, file,
              engine_docs, jwt_auth, cfg, resp, restarts, faults,
              g_acked, g_sent, g_loaded, g_tainted, g_pause, g_epoch>>

bufVars == <<buffer, block, bowner, bpc, bloc, stats, stop_event, arrived>>

jwtVars == <<now, held, verdict, pyjwt>>

searchVars == <<blocked_users, reply>>

delVars == <<deletion_tasks, tasks, ready, cbs, msg, g_resched, g_touch>>

botVars == <<searchVars, delVars>>

mapVars == <<progress_map, checkpoint_file, g_calls>>

saveVars == <<disk, savers>>

ckVars == <<mapVars, saveVars>>

wkVars == <<running, worker_thread, workers, ctl>>

mqVars == <<messages, g_enqueued, deq, acks>>

acVars == <<modes, decision>>

privVars == <<privacy_file, pcall>>

liveVars == <<tg, doc, lv, bf>>

loopVars == <<lp>>

newVars == <<privVars, liveVars, loopVars>>

extVars == <<wkVars, mqVars, acVars, newVars>>

otherVars == <<jwtVars, botVars, ckVars, extVars>>

vars == <<syncVars, bufVars, otherVars>>

\* ------------------------------------------------------------------------
\* SyncProgress
\* ------------------------------------------------------------------------
Statuses == {"pending", "in_progress", "completed", "failed", "paused"}

SyncProgress(chat_id, epoch) ==
    [chat_id |-> chat_id, total_count |-> 0, synced_count |-> 0,
     last_message_id |-> 0, status |-> "pending", error_count |-> 0,
     last_error |-> "none", epoch |-> epoch]

Blank == SyncProgress(0, 0)

to_dict(p) ==
    [chat_id |-> p.chat_id, total_count |-> p.total_count,
     synced_count |-> p.synced_count, last_message_id |-> p.last_message_id,
     status |-> p.status, error_count |-> p.error_count,
     last_error |-> p.last_error, epoch |-> p.epoch]

from_dict(d) ==
    [SyncProgress(d.chat_id, d.epoch) EXCEPT
        !.total_count = d.total_count, !.synced_count = d.synced_count,
        !.last_message_id = d.last_message_id, !.status = d.status,
        !.error_count = d.error_count, !.last_error = d.last_error]

\* ------------------------------------------------------------------------
\* Helpers on sequences and the heap
\* ------------------------------------------------------------------------
Range(s) == {s[i] : i \in 1..Len(s)}

Min(S) == CHOOSE x \in S : \A y \in S : x <= y

NoLocals == [chat |-> 0, prog |-> 0, next_id |-> 0, batch |-> <<>>,
             ret |-> "none", snap |-> <<>>, todo |-> <<>>]

Referenced(m, l) == {m[c] : c \in Chats} \cup {l[t].prog : t \in Threads}

FreeObj(m, l) == Min(ObjIds \ Referenced(m, l))

\* objects nobody references any more are garbage
Collect(o, m, l) ==
    [i \in ObjIds |-> IF i \in Referenced(m, l) THEN o[i] ELSE Blank]

CollectG(g, m, l) ==
    [i \in ObjIds |-> IF i \in Referenced(m, l) THEN g[i] ELSE -1]

\* ------------------------------------------------------------------------
\* Checkpoint file (sync_manager.py: _load_checkpoint, _save_checkpoint)
\* ------------------------------------------------------------------------
\* the records _load_checkpoint puts in the map, in file order
LoadCheckpoint(f) ==
    IF ~SYNC_RESUME_ON_RESTART THEN <<>>
    ELSE LET kept == SelectSeq(f, LAMBDA d : from_dict(d).status # "completed")
         IN  [i \in 1..Len(kept) |->
                 [from_dict(kept[i]) EXCEPT !.status = "pending"]]

\* the "chats" list _save_checkpoint builds under the lock
Snapshot(order, m, o) == [i \in 1..Len(order) |-> to_dict(o[m[order[i]]])]

\* ------------------------------------------------------------------------
\* JWT set-up of the sync API (sync_api.py: init_sync_api; jwt_auth.py)
\* ------------------------------------------------------------------------
JwtNone == [kind |-> "none", issuer |-> "", audience |-> ""]
JwtTypeError == [kind |-> "TypeError", issuer |-> "", audience |-> ""]
Missing == "<missing>"

\* load_jwt_auth_from_config(issuer, audience): both parameters are required
LoadJwtAuthFromConfig(c, issuer, audience) ==
    IF issuer = Missing \/ audience = Missing THEN JwtTypeError
    ELSE IF ~c.use_jwt THEN JwtNone
    ELSE [kind |-> "auth", issuer |-> issuer, audience |-> audience]

\* init_sync_api calls load_jwt_auth_from_config(issuer="userbot") and turns
\* any exception into _jwt_auth = None
InitSyncApi(c) ==
    LET r == LoadJwtAuthFromConfig(c, "userbot", Missing)
    IN  IF r.kind = "TypeError" THEN JwtNone ELSE r

NoToken == [present |-> FALSE, bearer |-> FALSE, sig |-> FALSE,
            expired |-> FALSE, aud |-> "", iss |-> ""]
GoodToken == [present |-> TRUE, bearer |-> TRUE, sig |-> TRUE,
              expired |-> FALSE, aud |-> "userbot", iss |-> "bot"]
Tokens ==
    {NoToken, GoodToken,
     [GoodToken EXCEPT !.bearer = FALSE], [GoodToken EXCEPT !.sig = FALSE],
     [GoodToken EXCEPT !.expired = TRUE], [GoodToken EXCEPT !.aud = "other"],
     [GoodToken EXCEPT !.iss = "attacker"]}

\* JWTAuth.verify_token: TRUE iff it returns the claims
VerifyToken(auth, tok, allowed_issuers) ==
    /\ tok.sig
    /\ ~tok.expired
    /\ tok.aud = auth.audience
    /\ (allowed_issuers # {} => tok.iss \in allowed_issuers)

\* the wrapper of require_jwt_auth: 0 when the request goes on to the handler
RequireJwtAuth(auth, tok, allowed_issuers) ==
    IF auth.kind = "none" THEN 0
    ELSE IF ~tok.present THEN 401
    ELSE IF ~tok.bearer THEN 401
    ELSE IF ~VerifyToken(auth, tok, allowed_issuers) THEN 401
    ELSE 0

\* ------------------------------------------------------------------------
\* Initial states: the process has started, no checkpoint file exists
\* ------------------------------------------------------------------------
\* sync.chats lists one chat; JWT is switched on
ConfiguredCfg == [use_jwt |-> TRUE, sync_chats |-> <<1>>]

\* sync.chats is empty: chats are enrolled over HTTP; JWT is switched on
ApiCfg == [use_jwt |-> TRUE, sync_chats |-> <<>>]

\* the locals of _flush_buffer_unsafe; raised: the except clause was entered
NoFlush == [messages_to_flush |-> <<>>, failed_count |-> 0, raised |-> FALSE]

NoStats == [buffered |-> 0, flushed |-> 0, batches |-> 0, errors |-> 0]

\* BufferedSearchEngine.__init__: empty buffer, flush worker started
InitBuffer ==
    /\ buffer = <<>>
    /\ block = FALSE
    /\ bowner = "none"
    /\ bpc = [t \in BufThreads |-> IF t = F THEN "f_wait" ELSE "idle"]
    /\ bloc = [t \in BufThreads |-> NoFlush]
    /\ stats = NoStats
    /\ stop_event = FALSE
    /\ arrived = 0

\* SyncManager.__init__ (no checkpoint file), init_sync_api, start_worker,
\* sync_history_new started
InitManager(c) ==
    /\ cfg = c
    /\ pm_order = <<>>
    /\ pm = [k \in Chats |-> 0]
    /\ objs = [i \in ObjIds |-> Blank]
    /\ lock = "free"
    /\ pc = [t \in Threads |->
                IF t = W THEN "w_scan" ELSE IF t = A THEN "a_init" ELSE "idle"]
    /\ loc = [t \in Threads |-> NoLocals]
    /\ current_sync = 0
    /\ file = <<>>
    /\ engine_docs = {}
    /\ jwt_auth = InitSyncApi(c)
    /\ resp = [r \in Reqs |-> 0]
    /\ restarts = 0
    /\ faults = 0
    /\ g_acked = {}
    /\ g_sent = {}
    /\ g_loaded = [k \in Chats |-> Blank]
    /\ g_tainted = [k \in Chats |-> FALSE]
    /\ g_pause = [i \in ObjIds |-> -1]
    /\ g_epoch = [k \in Chats |-> 0]

\* no token generated or verified yet
NoJwt == [sig |-> FALSE, iat |-> 0, exp |-> 0, aud |-> "", iss |-> ""]

NoVerdict == [tok |-> NoJwt, allowed |-> {}, at |-> 0, ok |-> FALSE,
              minted |-> FALSE]

\* a PyJWT that rejects a token from the second it expires on and rejects an
\* iat that lies in the future
NewPyJwt == [exact_second |-> FALSE, checks_iat |-> TRUE]

InitJwtAuth(lib) ==
    /\ now = 0
    /\ held = NoJwt
    /\ verdict = NoVerdict
    /\ pyjwt = lib

\* the messages with a navigation keyboard and the callback handlers that
\* the event loop runs
MsgKeys == {"m1"}
Callbacks == {"cb1", "cb2"}

\* no search answered yet
NoReply ==
    [to |-> 0, chat_id |-> 0, callback |-> FALSE, found |-> <<>>,
     filtered |-> FALSE, blocked |-> {}, hits |-> <<>>, totalHits |-> 0,
     totalPages |-> 0, page |-> 0, hitsPerPage |-> 0, engineHits |-> 0,
     markup |-> <<>>, error |-> FALSE]

\* PrivacyManager.__init__ over a privacy file that lists the ids of
\* stored, and the empty bot.deletion_tasks of bot.py line 66
InitBotWith(stored) ==
    /\ blocked_users = stored
    /\ reply = NoReply
    /\ deletion_tasks = [k \in MsgKeys |-> 0]
    /\ tasks = <<>>
    /\ ready = <<>>
    /\ cbs = [c \in Callbacks |-> [st |-> "idle", key |-> ""]]
    /\ msg = [k \in MsgKeys |-> [st |-> "unsent", by |-> 0]]
    /\ g_resched = [k \in MsgKeys |-> 0]
    /\ g_touch = [k \in MsgKeys |-> {}]

InitBot == InitBotWith({})

\* the threads that run sync_chat, each of which saves the checkpoint
Savers == {"t1", "t2"}

NoSave == [pc |-> "idle", data |-> <<>>, fd |-> 0, off |-> 0]

\* SyncManager.__init__ without a checkpoint file, lines 91-96
InitCheckpoint ==
    /\ progress_map = <<>>
    /\ checkpoint_file = <<>>
    /\ g_calls = <<>>
    /\ disk = [tmp |-> 0, file |-> 0, inodes |-> <<>>]
    /\ savers = [t \in Savers |-> NoSave]

\* SyncManager.__init__ lines 100-101: no worker thread yet
InitWorker ==
    /\ running = FALSE
    /\ worker_thread = 0
    /\ workers = <<>>
    /\ ctl = "idle"

NoResult == [to |-> "none", after_id |-> 0, limit |-> 0, items |-> <<>>]

\* MessageStore.__init__ and _init_db on a new database file
InitStore ==
    /\ messages = <<>>
    /\ g_enqueued = <<>>
    /\ deq = NoResult
    /\ acks = {}

BotModes == {"private", "group", "public"}

NoDecision == [user_id |-> 0, chat_type |-> "none", chat_id |-> 0,
               has_access |-> FALSE]

\* AccessController.__init__ lines 35-39 with BOT_MODE = ms
InitAccess(ms) ==
    /\ modes = ms
    /\ decision = NoDecision

NoFile == [exists |-> FALSE, blocked_users |-> <<>>]

NoCall == [op |-> "none", user_id |-> 0, ret |-> FALSE]

\* the privacy file as the bot finds it at its first start: absent
InitPrivacy ==
    /\ privacy_file = NoFile
    /\ pcall = NoCall

NoDoc == [exists |-> FALSE, version |-> 0, is_deleted |-> FALSE]

\* one message exists in the chat; nothing is indexed or buffered, and the
\* chat has not been synced
InitLive ==
    /\ tg = [version |-> 1, deleted |-> FALSE]
    /\ doc = NoDoc
    /\ lv = [buffer |-> <<>>, flights |-> <<>>]
    /\ bf = [st |-> "pending", copy |-> 0]

\* sync_chat has not been called
InitLoop == lp = [pc |-> "none"]

InitNew == InitPrivacy /\ InitLive /\ InitLoop

InitExt ==
    InitWorker /\ InitStore /\ InitAccess({"private", "group"}) /\ InitNew

InitOther == InitJwtAuth(NewPyJwt) /\ InitBot /\ InitCheckpoint /\ InitExt

Init == InitManager(ConfiguredCfg) /\ InitBuffer /\ InitOther

InitApi == InitManager(ApiCfg) /\ InitBuffer /\ InitOther

InitBuf == InitManager(ApiCfg) /\ InitBuffer /\ InitOther

\* ------------------------------------------------------------------------
\* Shorthands
\* ------------------------------------------------------------------------
Keys == Range(pm_order)
Prog(c) == objs[pm[c]]

\* thread t is inside sync_chat
Syncing(t) == pc[t] \in {"sc_enter", "add_lock"} \/ loc[t].prog # 0

\* where a thread goes when its sync_chat call returns
SyncReturn(t) == IF t = W THEN "w_scan" ELSE IF t = A THEN "a_next" ELSE "idle"

apiVars == <<jwt_auth, cfg, resp>>
envVars == <<restarts, faults>>
ghostSync == <<g_acked, g_sent, g_loaded, g_tainted, g_epoch>>

\* the heap after a step, given the new map and locals
Heap(o, g) ==
    /\ objs' = Collect(o, pm', loc')
    /\ g_pause' = CollectG(g, pm', loc')

Taint(c) == [g_tainted EXCEPT ![c] = TRUE]

\* ------------------------------------------------------------------------
\* SyncManager.add_chat (the body run under the lock)
\* ------------------------------------------------------------------------
\* an add_chat that never replaces a record
AddChatAddsUnknown(c) == c \notin Keys

AddChatAdds(c) == c \notin Keys \/ Prog(c).status = "completed"

\* effect of add_chat(c) on the map, the heap and the ghosts; l: new locals
AddChat(c, l) ==
    IF AddChatAdds(c)
    THEN LET o == FreeObj(pm, loc)
         IN  /\ pm_order' = IF c \in Keys THEN pm_order
                            ELSE Append(pm_order, c)
             /\ pm' = [pm EXCEPT ![c] = o]
             /\ loc' = l
             /\ Heap([objs EXCEPT ![o] = SyncProgress(c, g_epoch[c] + 1)],
                     [g_pause EXCEPT ![o] = -1])
             /\ g_epoch' = [g_epoch EXCEPT ![c] = @ + 1]
             /\ g_tainted' = [g_tainted EXCEPT ![c] =
                                \E t \in SyncThreads : Syncing(t) /\ loc[t].chat = c]
    ELSE /\ loc' = l
         /\ UNCHANGED <<pm_order, pm, objs, g_pause, g_epoch, g_tainted>>

\* ------------------------------------------------------------------------
\* SyncManager._save_checkpoint, called by thread t; it returns to loc[t].ret
\* ------------------------------------------------------------------------
\* "with self.lock": build the data; blocks while the lock is held
SvLock(t) ==
    /\ pc[t] = "sv_lock"
    /\ lock = "free"
    /\ loc' = [loc EXCEPT ![t].snap = Snapshot(pm_order, pm, objs)]
    /\ pc' = [pc EXCEPT ![t] = "sv_write"]
    /\ UNCHANGED <<pm_order, pm, objs, lock, current_sync, file, engine_docs,
                   apiVars, envVars, ghostSync, g_pause, bufVars, otherVars>>

\* lines 140-143: the data is written to the temp file, which is renamed
\* over the checkpoint file; _save_checkpoint returns to its caller, and
\* where that is the end of sync_chat, sync_chat returns to its caller
SvWrite(t) ==
    /\ pc[t] = "sv_write"
    /\ file' = loc[t].snap
    /\ IF loc[t].ret = "sc_return"
       THEN /\ pc' = [pc EXCEPT ![t] = SyncReturn(t)]
            /\ loc' = [loc EXCEPT ![t] = [NoLocals EXCEPT !.todo = loc[t].todo]]
            /\ current_sync' = IF t = W THEN 0 ELSE current_sync
       ELSE /\ pc' = [pc EXCEPT ![t] = loc[t].ret]
            /\ loc' = [loc EXCEPT ![t].snap = <<>>, ![t].ret = "none"]
            /\ UNCHANGED current_sync
    /\ UNCHANGED <<pm_order, pm>>
    /\ Heap(objs, g_pause)
    /\ UNCHANGED <<lock, engine_docs, apiVars, envVars, ghostSync, bufVars, otherVars>>

\* thread t sets its progress object to rec and calls _save_checkpoint
SetAndSave(t, rec, ret) ==
    /\ objs' = [objs EXCEPT ![loc[t].prog] = rec]
    /\ pc' = [pc EXCEPT ![t] = "sv_lock"]
    /\ loc' = [loc EXCEPT ![t].ret = ret]

\* ------------------------------------------------------------------------
\* SyncManager.sync_chat, run by thread t for chat loc[t].chat
\* ------------------------------------------------------------------------
Docs(c, ids) == {<<c, i>> : i \in ids}

\* lines 240-247: the answer of upsert_batch applied to the progress record;
\* failed are the documents the engine counts in failed_count
BatchResult(p, batch, failed) ==
    [p EXCEPT !.synced_count = @ + (Len(batch) - Cardinality(failed)),
              !.last_message_id = batch[Len(batch)],
              !.error_count = @ + Cardinality(failed),
              !.last_error = IF failed # {} THEN "batch_failures" ELSE @]

\* lines 314-319
TailResult(p, batch, failed) ==
    [p EXCEPT !.synced_count = @ + (Len(batch) - Cardinality(failed)),
              !.last_message_id = batch[Len(batch)],
              !.error_count = @ + Cardinality(failed)]

\* line 324: upsert_batch raised on what was left in message_batch
TailError(p, batch) == [p EXCEPT !.error_count = @ + Len(batch)]

\* lines 303-304
MessageError(p) ==
    [p EXCEPT !.error_count = @ + 1, !.last_error = "exception"]

\* a retry limit that is reached one error later
BailOutLate(p) == ~SYNC_RETRY_ON_ERROR \/ p.error_count > SYNC_MAX_RETRIES

\* line 306
BailOut(p) == ~SYNC_RETRY_ON_ERROR \/ p.error_count >= SYNC_MAX_RETRIES

\* a sync_chat that would start every run at the newest message
FirstIdFromStart(offset_id) == HistLen

\* first id get_chat_history(chat_id, offset_id) yields (0: none); ids run
\* from HistLen (newest) down to 1
FirstId(offset_id) == IF offset_id = 0 THEN HistLen ELSE offset_id - 1

\* lines 227-235: the messages the loop appends to message_batch before it
\* next calls upsert_batch or runs out of history
Taken(l) ==
    LET want == IF SYNC_BATCH_SIZE - Len(l.batch) > 1
                THEN SYNC_BATCH_SIZE - Len(l.batch) ELSE 1
        n == IF l.next_id < want THEN l.next_id ELSE want
    IN  [i \in 1..n |-> l.next_id - i + 1]

\* message_batch at the next upsert_batch call
FullBatch(l) == l.batch \o Taken(l)

\* the loop reaches line 237 (TRUE) or the history ends first (FALSE)
LoopUpsert(l) == Taken(l) # <<>> /\ Len(FullBatch(l)) >= SYNC_BATCH_SIZE

\* outcomes of one batch RPC: at most one document reported as failed
FailSets(batch) == {{}} \cup {{i} : i \in Range(batch)}

BumpPause(o) ==
    IF g_pause[o] >= 0 /\ g_pause[o] < 2
    THEN [g_pause EXCEPT ![o] = @ + 1] ELSE g_pause

\* lines 187-195: look the record up under the lock; an unknown chat makes
\* sync_chat call add_chat, which waits for the lock sync_chat holds.
\* Otherwise the record is marked in_progress and the checkpoint saved
ScEnter(t) ==
    /\ pc[t] = "sc_enter"
    /\ lock = "free"
    /\ LET c == loc[t].chat
       IN  IF c \notin Keys
           THEN /\ lock' = t
                /\ pc' = [pc EXCEPT ![t] = "add_lock"]
                /\ UNCHANGED <<loc, objs, g_tainted>>
           ELSE /\ objs' = [objs EXCEPT ![pm[c]].status = "in_progress"]
                /\ loc' = [loc EXCEPT ![t].prog = pm[c], ![t].ret = "sc_count"]
                /\ pc' = [pc EXCEPT ![t] = "sv_lock"]
                /\ g_tainted' =
                     [k \in Chats |->
                        \/ g_tainted[k]
                        \/ \E u \in SyncThreads \ {t} :
                              Syncing(u) /\ k \in {c, loc[u].chat}]
                /\ UNCHANGED lock
    /\ UNCHANGED <<pm_order, pm, current_sync, file, engine_docs, apiVars,
                   envVars, g_acked, g_sent, g_loaded, g_epoch, g_pause,
                   bufVars, otherVars>>

\* what get_chat_history_count answers: the newest message may reach the
\* chat after the count is taken and before get_chat_history starts (late)
HistoryCount(late) == IF late THEN HistLen - 1 ELSE HistLen

\* lines 199-202 and 211-221: total count fetched if not yet known, offset
\* computed
ScCount(t, late) ==
    /\ pc[t] = "sc_count"
    /\ LET o == loc[t].prog
           p == objs[o]
       IN  /\ late => (p.total_count = 0 /\ faults < MaxFaults)
           /\ faults' = IF late THEN faults + 1 ELSE faults
           /\ objs' = [objs EXCEPT ![o].total_count =
                          IF p.total_count = 0 THEN HistoryCount(late) ELSE @]
           /\ loc' = [loc EXCEPT ![t].next_id = FirstId(p.last_message_id),
                                 ![t].batch = <<>>]
    /\ g_tainted' = IF late THEN Taint(loc[t].chat) ELSE g_tainted
    /\ pc' = [pc EXCEPT ![t] = "sc_batch"]
    /\ UNCHANGED <<pm_order, pm, lock, current_sync, file, engine_docs,
                   apiVars, restarts, g_acked, g_sent, g_loaded, g_epoch,
                   g_pause, bufVars, otherVars>>

\* lines 203-208: get_chat_history_count raises
ScCountFails(t) ==
    /\ pc[t] = "sc_count"
    /\ objs[loc[t].prog].total_count = 0
    /\ faults < MaxFaults
    /\ faults' = faults + 1
    /\ SetAndSave(t, [objs[loc[t].prog] EXCEPT !.last_error = "count",
                                               !.status = "failed"],
                  "sc_return")
    /\ g_tainted' = Taint(loc[t].chat)
    /\ UNCHANGED <<pm_order, pm, lock, current_sync, file, engine_docs,
                   apiVars, restarts, g_acked, g_sent, g_loaded, g_epoch,
                   g_pause, bufVars, otherVars>>

\* lines 361-368: FloodWait out of get_chat_history; sync_chat is retried
ScFloodWait(t) ==
    /\ pc[t] = "sc_batch"
    /\ faults < MaxFaults
    /\ faults' = faults + 1
    /\ SetAndSave(t, [objs[loc[t].prog] EXCEPT !.status = "paused",
                                               !.last_error = "floodwait"],
                  "sc_enter")
    /\ g_tainted' = Taint(loc[t].chat)
    /\ UNCHANGED <<pm_order, pm, lock, current_sync, file, engine_docs,
                   apiVars, restarts, g_acked, g_sent, g_loaded, g_epoch,
                   g_pause, bufVars, otherVars>>

\* lines 347-359 and 370-376: ChannelPrivate, ChatAdminRequired, or any
\* other exception out of get_chat_history
ScUpstreamError(t, kind) ==
    /\ pc[t] = "sc_batch"
    /\ faults < MaxFaults
    /\ faults' = faults + 1
    /\ SetAndSave(t, [objs[loc[t].prog] EXCEPT
                         !.status = "failed", !.last_error = kind,
                         !.error_count = IF kind = "exception" THEN @ + 1 ELSE @],
                  "sc_return")
    /\ g_tainted' = Taint(loc[t].chat)
    /\ UNCHANGED <<pm_order, pm, lock, current_sync, file, engine_docs,
                   apiVars, restarts, g_acked, g_sent, g_loaded, g_epoch,
                   g_pause, bufVars, otherVars>>

\* lines 227-262: the batch fills up, is sent and answered; failed: the
\* documents the answer counts in failed_count
ScUpsert(t, failed) ==
    /\ pc[t] = "sc_batch"
    /\ LoopUpsert(loc[t])
    /\ failed \in FailSets(FullBatch(loc[t]))
    /\ failed # {} => faults < MaxFaults
    /\ faults' = IF failed # {} THEN faults + 1 ELSE faults
    /\ LET c == loc[t].chat
           b == FullBatch(loc[t])
       IN  /\ engine_docs' = engine_docs \cup Docs(c, Range(b) \ failed)
           /\ g_acked' = g_acked \cup Docs(c, Range(b))
           /\ g_sent' = g_sent \cup Docs(c, Range(b))
           /\ g_tainted' = IF failed # {} THEN Taint(c) ELSE g_tainted
           /\ objs' = [objs EXCEPT ![loc[t].prog] = BatchResult(@, b, failed)]
    /\ g_pause' = BumpPause(loc[t].prog)
    /\ pc' = [pc EXCEPT ![t] = "sv_lock"]
    /\ loc' = [loc EXCEPT ![t].ret = "sc_batch", ![t].batch = <<>>,
                          ![t].next_id = @ - Len(Taken(loc[t]))]
    /\ UNCHANGED <<pm_order, pm, lock, current_sync, file, apiVars,
                   restarts, g_loaded, g_epoch, bufVars, otherVars>>

\* lines 301-308 and 327-341: upsert_batch raises; the batch is kept and the
\* loop goes on, or the loop is left and the sync ends as failed
ScUpsertRaises(t) ==
    /\ pc[t] = "sc_batch"
    /\ LoopUpsert(loc[t])
    /\ faults < MaxFaults
    /\ faults' = faults + 1
    /\ LET p == MessageError(objs[loc[t].prog])
       IN  IF BailOut(p)
           THEN SetAndSave(t, [p EXCEPT !.status = "failed"], "sc_return")
           ELSE /\ objs' = [objs EXCEPT ![loc[t].prog] = p]
                /\ loc' = [loc EXCEPT ![t].batch = FullBatch(loc[t]),
                                      ![t].next_id = @ - Len(Taken(loc[t]))]
                /\ UNCHANGED pc
    /\ g_pause' = BumpPause(loc[t].prog)
    /\ g_tainted' = Taint(loc[t].chat)
    /\ UNCHANGED <<pm_order, pm, lock, current_sync, file, engine_docs,
                   apiVars, restarts, g_acked, g_sent, g_loaded, g_epoch,
                   bufVars, otherVars>>

\* lines 310-341: the history has ended; what is left in message_batch is
\* sent, search_engine.flush() is called (the indexer's buffer takes no
\* part in upsert_batch), the record is marked completed and saved
ScTail(t, failed) ==
    /\ pc[t] = "sc_batch"
    /\ ~LoopUpsert(loc[t])
    /\ LET c == loc[t].chat
           b == FullBatch(loc[t])
           p == objs[loc[t].prog]
       IN  IF b # <<>>
           THEN /\ failed \in FailSets(b)
                /\ failed # {} => faults < MaxFaults
                /\ faults' = IF failed # {} THEN faults + 1 ELSE faults
                /\ engine_docs' = engine_docs \cup Docs(c, Range(b) \ failed)
                /\ g_acked' = g_acked \cup Docs(c, Range(b))
                /\ g_sent' = g_sent \cup Docs(c, Range(b))
                /\ g_tainted' = IF failed # {} THEN Taint(c) ELSE g_tainted
                /\ g_pause' = BumpPause(loc[t].prog)
                /\ SetAndSave(t, [TailResult(p, b, failed) EXCEPT
                                     !.status = "completed"], "sc_return")
           ELSE /\ failed = {}
                /\ SetAndSave(t, [p EXCEPT !.status = "completed"],
                              "sc_return")
                /\ UNCHANGED <<faults, engine_docs, g_acked, g_sent,
                               g_tainted, g_pause>>
    /\ UNCHANGED <<pm_order, pm, lock, current_sync, file, apiVars,
                   restarts, g_loaded, g_epoch, bufVars, otherVars>>

\* lines 322-324: upsert_batch raises on what is left; the sync still ends
\* as completed
ScTailRaises(t) ==
    /\ pc[t] = "sc_batch"
    /\ ~LoopUpsert(loc[t])
    /\ FullBatch(loc[t]) # <<>>
    /\ faults < MaxFaults
    /\ faults' = faults + 1
    /\ SetAndSave(t, [TailError(objs[loc[t].prog], FullBatch(loc[t])) EXCEPT
                         !.status = "completed"], "sc_return")
    /\ g_pause' = BumpPause(loc[t].prog)
    /\ g_tainted' = Taint(loc[t].chat)
    /\ UNCHANGED <<pm_order, pm, lock, current_sync, file, engine_docs,
                   apiVars, restarts, g_acked, g_sent, g_loaded, g_epoch,
                   bufVars, otherVars>>

\* ------------------------------------------------------------------------
\* SyncManager._sync_worker (started by client.py at start-up)
\* ------------------------------------------------------------------------
PendingKeys == SelectSeq(pm_order, LAMBDA c : Prog(c).status = "pending")

\* lines 512-524: the first pending chat is found under the lock and synced;
\* with no pending chat the worker sleeps and scans again
WorkerScan ==
    /\ pc[W] = "w_scan"
    /\ lock = "free"
    /\ PendingKeys # <<>>
    /\ current_sync' = Head(PendingKeys)
    /\ loc' = [loc EXCEPT ![W].chat = Head(PendingKeys)]
    /\ pc' = [pc EXCEPT ![W] = "sc_enter"]
    /\ UNCHANGED <<pm_order, pm, objs, lock, file, engine_docs, apiVars,
                   envVars, ghostSync, g_pause, bufVars, otherVars>>

\* ------------------------------------------------------------------------
\* client.py sync_history_new: config-driven add_chat and sync_all, thread A
\* ------------------------------------------------------------------------
\* lines 265-269: nothing configured and nothing in the map: return
SyncAllInit ==
    /\ pc[A] = "a_init"
    /\ lock = "free"
    /\ IF cfg.sync_chats = <<>> /\ pm_order = <<>>
       THEN pc' = [pc EXCEPT ![A] = "a_done"] /\ UNCHANGED loc
       ELSE /\ pc' = [pc EXCEPT ![A] = "a_add"]
            /\ loc' = [loc EXCEPT ![A].todo = cfg.sync_chats]
    /\ UNCHANGED <<pm_order, pm, objs, lock, current_sync, file,
                   engine_docs, apiVars, envVars, ghostSync, g_pause, bufVars, otherVars>>

\* lines 272-273: add_chat for every configured chat
SyncAllAdd ==
    /\ pc[A] = "a_add"
    /\ loc[A].todo # <<>>
    /\ lock = "free"
    /\ AddChat(Head(loc[A].todo), [loc EXCEPT ![A].todo = Tail(@)])
    /\ UNCHANGED <<pc, lock, current_sync, file, engine_docs, apiVars,
                   envVars, g_acked, g_sent, g_loaded, bufVars, otherVars>>

\* sync_all lines 390-394: the chats that are pending or paused, under the lock
SyncAllList ==
    /\ pc[A] = "a_add"
    /\ loc[A].todo = <<>>
    /\ lock = "free"
    /\ loc' = [loc EXCEPT ![A].todo =
                 SelectSeq(pm_order,
                           LAMBDA c : Prog(c).status \in {"pending", "paused"})]
    /\ pc' = [pc EXCEPT ![A] = "a_next"]
    /\ UNCHANGED <<pm_order, pm, objs, lock, current_sync, file,
                   engine_docs, apiVars, envVars, ghostSync, g_pause, bufVars, otherVars>>

\* clear_completed lines 468-473: the map without its completed records
ClearedOrder == SelectSeq(pm_order, LAMBDA c : Prog(c).status # "completed")

\* sync_all lines 398-400: sync_chat on the next chat of the list; after the
\* last, client.py lines 358-362
SyncAllNext ==
    /\ pc[A] = "a_next"
    /\ IF loc[A].todo # <<>>
       THEN /\ pc' = [pc EXCEPT ![A] = "sc_enter"]
            /\ loc' = [loc EXCEPT ![A].chat = Head(loc[A].todo),
                                  ![A].todo = Tail(@)]
            /\ UNCHANGED <<pm_order, pm, objs, g_pause>>
       ELSE IF SYNC_CLEAR_COMPLETED
       THEN /\ lock = "free"
            /\ pm_order' = ClearedOrder
            /\ pm' = [c \in Chats |->
                        IF c \in Range(ClearedOrder) THEN pm[c] ELSE 0]
            /\ pc' = [pc EXCEPT ![A] = "sv_lock"]
            /\ loc' = [loc EXCEPT ![A].ret = "a_done"]
            /\ Heap(objs, g_pause)
       ELSE /\ pc' = [pc EXCEPT ![A] = "a_done"]
            /\ UNCHANGED <<pm_order, pm, objs, loc, g_pause>>
    /\ UNCHANGED <<lock, current_sync, file, engine_docs, apiVars, envVars,
                   ghostSync, bufVars, otherVars>>

\* ------------------------------------------------------------------------
\* HTTP sync-control API (sync_api.py), request thread r; c = 0: the request
\* names no chat_id; tok: what the Authorization header carries
\* ------------------------------------------------------------------------
managerVars == <<pm_order, pm, objs, lock, current_sync, file, engine_docs,
                 g_pause, ghostSync>>

\* the request is answered with code before it reaches the Sync Manager
Answer(r, code) ==
    /\ resp' = [resp EXCEPT ![r] = code]
    /\ UNCHANGED <<managerVars, pc, loc>>

\* what the wrapper of require_jwt_auth(allowed_issuers=["bot"]) and the
\* chat_id check of the handler answer themselves (0: the handler goes on)
Precheck(c, tok, chat_required) ==
    LET auth == RequireJwtAuth(jwt_auth, tok, {"bot"})
    IN  IF auth # 0 THEN auth
        ELSE IF chat_required /\ c = 0 THEN 400
        ELSE 0

\* POST /api/v1/sync, add_sync lines 146-178: add_chat, then a thread
\* running sync_chat, or 409 for a chat that is enrolled already
HttpAddSync(r, c, tok) ==
    /\ pc[r] = "idle"
    /\ IF Precheck(c, tok, TRUE) # 0
       THEN Answer(r, Precheck(c, tok, TRUE))
       ELSE /\ lock = "free"
            /\ IF AddChatAdds(c)
               THEN /\ g_epoch[c] <= MaxResync
                    /\ \E s \in Spawned :
                         /\ pc[s] = "idle"
                         /\ AddChat(c, [loc EXCEPT ![s].chat = c])
                         /\ pc' = [pc EXCEPT ![s] = "sc_enter"]
                    /\ resp' = [resp EXCEPT ![r] = 200]
               ELSE /\ resp' = [resp EXCEPT ![r] = 409]
                    /\ UNCHANGED <<pm_order, pm, objs, pc, loc, g_pause,
                                   g_epoch, g_tainted>>
            /\ UNCHANGED <<lock, current_sync, file, engine_docs, g_acked,
                           g_sent, g_loaded>>
    /\ UNCHANGED <<jwt_auth, cfg, envVars, bufVars, otherVars>>

\* GET /api/v1/sync/status, get_sync_status lines 218-237
HttpStatus(r, c, tok) ==
    /\ pc[r] = "idle"
    /\ IF Precheck(c, tok, FALSE) # 0
       THEN Answer(r, Precheck(c, tok, FALSE))
       ELSE /\ lock = "free"
            /\ Answer(r, IF c # 0 /\ c \notin Keys THEN 404 ELSE 200)
    /\ UNCHANGED <<jwt_auth, cfg, envVars, bufVars, otherVars>>

\* POST /api/v1/sync/pause -> pause_chat (lines 424-438): a pending or
\* in_progress chat is set to paused and _save_checkpoint is called with the
\* lock held, where the thread waits for the lock; otherwise 400
HttpPause(r, c, tok) ==
    /\ pc[r] = "idle"
    /\ IF Precheck(c, tok, TRUE) # 0
       THEN Answer(r, Precheck(c, tok, TRUE))
       ELSE /\ lock = "free"
            /\ IF c \in Keys /\ Prog(c).status \in {"pending", "in_progress"}
               THEN /\ objs' = [objs EXCEPT ![pm[c]].status = "paused"]
                    /\ g_pause' = [g_pause EXCEPT ![pm[c]] =
                                     IF Prog(c).status = "in_progress"
                                     THEN 0 ELSE @]
                    /\ g_tainted' = Taint(c)
                    /\ lock' = r
                    /\ pc' = [pc EXCEPT ![r] = "sv_lock"]
                    /\ loc' = [loc EXCEPT ![r].chat = c,
                                          ![r].ret = "pause_chat"]
                    /\ UNCHANGED <<resp, pm_order, pm, current_sync, file,
                                   engine_docs, g_acked, g_sent, g_loaded,
                                   g_epoch>>
               ELSE Answer(r, 400)
    /\ UNCHANGED <<jwt_auth, cfg, envVars, bufVars, otherVars>>

\* POST /api/v1/sync/resume -> resume_chat (lines 450-464), as pause_chat
HttpResume(r, c, tok) ==
    /\ pc[r] = "idle"
    /\ IF Precheck(c, tok, TRUE) # 0
       THEN Answer(r, Precheck(c, tok, TRUE))
       ELSE /\ lock = "free"
            /\ IF c \in Keys /\ Prog(c).status = "paused"
               THEN /\ objs' = [objs EXCEPT ![pm[c]].status = "pending"]
                    /\ g_pause' = [g_pause EXCEPT ![pm[c]] = -1]
                    /\ lock' = r
                    /\ pc' = [pc EXCEPT ![r] = "sv_lock"]
                    /\ loc' = [loc EXCEPT ![r].chat = c,
                                          ![r].ret = "resume_chat"]
                    /\ UNCHANGED <<resp, pm_order, pm, current_sync, file,
                                   engine_docs, ghostSync>>
               ELSE Answer(r, 400)
    /\ UNCHANGED <<jwt_auth, cfg, envVars, bufVars, otherVars>>

\* a request of any kind
HttpRequest(r, c, tok) ==
    \/ HttpAddSync(r, c, tok) \/ HttpStatus(r, c, tok)
    \/ HttpPause(r, c, tok) \/ HttpResume(r, c, tok)

\* ------------------------------------------------------------------------
\* The process is killed and started again: SyncManager.__init__ with
\* _load_checkpoint, init_sync_api, start_worker, sync_history_new
\* ------------------------------------------------------------------------
\* position in recs of the record of chat c (0: none)
IndexOf(recs, c) ==
    IF \E i \in 1..Len(recs) : recs[i].chat_id = c
    THEN CHOOSE i \in 1..Len(recs) : recs[i].chat_id = c
    ELSE 0

Restart ==
    /\ restarts < MaxRestarts
    /\ restarts' = restarts + 1
    /\ LET recs == LoadCheckpoint(file)
       IN  /\ pm_order' = [i \in 1..Len(recs) |-> recs[i].chat_id]
           /\ pm' = [c \in Chats |-> IndexOf(recs, c)]
           /\ objs' = [i \in ObjIds |-> IF i <= Len(recs) THEN recs[i] ELSE Blank]
           /\ g_loaded' = [c \in Chats |->
                             IF IndexOf(recs, c) # 0
                             THEN recs[IndexOf(recs, c)] ELSE Blank]
    /\ lock' = "free"
    /\ pc' = [t \in Threads |->
                IF t = W THEN "w_scan" ELSE IF t = A THEN "a_init" ELSE "idle"]
    /\ loc' = [t \in Threads |-> NoLocals]
    /\ current_sync' = 0
    /\ jwt_auth' = InitSyncApi(cfg)
    /\ resp' = [r \in Reqs |-> 0]
    /\ g_sent' = {}
    /\ g_pause' = [i \in ObjIds |-> -1]
    /\ UNCHANGED <<file, engine_docs, cfg, faults, g_acked, g_tainted, g_epoch,
                   bufVars, otherVars>>

\* ------------------------------------------------------------------------
\* Specifications of the Sync Manager
\* ------------------------------------------------------------------------
Configured == {W, A}

Next ==
    \/ \E t \in Configured : SvLock(t) \/ SvWrite(t)
    \/ \E t \in Configured :
          \/ ScEnter(t) \/ ScCountFails(t) \/ ScFloodWait(t)
          \/ \E late \in BOOLEAN : ScCount(t, late)
          \/ \E k \in {"private", "admin", "exception"} : ScUpstreamError(t, k)
          \/ \E f \in SUBSET (1..HistLen) : ScUpsert(t, f) \/ ScTail(t, f)
          \/ ScUpsertRaises(t) \/ ScTailRaises(t)
    \/ WorkerScan
    \/ SyncAllInit \/ SyncAllAdd \/ SyncAllList \/ SyncAllNext
    \/ Restart

Spec == Init /\ [][Next]_vars

OverHttp == {W} \cup Spawned

NextApi ==
    \/ \E t \in OverHttp \cup Reqs : SvLock(t) \/ SvWrite(t)
    \/ \E t \in OverHttp :
          \/ ScEnter(t) \/ ScCount(t, FALSE) \/ ScFloodWait(t)
          \/ ScUpsert(t, {}) \/ ScTail(t, {})
    \/ WorkerScan
    \/ SyncAllInit
    \/ \E r \in Reqs, c \in Chats \cup {0}, tok \in Tokens : HttpRequest(r, c, tok)

SpecApi == InitApi /\ [][NextApi]_vars

\* the steps thread t takes by itself once it is scheduled: the worker
\* loop, sync_chat and _save_checkpoint (no upstream fault, no new request)
ThreadRuns(t) ==
    \/ SvLock(t) \/ SvWrite(t)
    \/ (t \in OverHttp /\ (\/ ScEnter(t) \/ ScCount(t, FALSE)
                            \/ ScUpsert(t, {}) \/ ScTail(t, {})))
    \/ (t = W /\ WorkerScan)

\* SpecApi with every thread scheduled fairly: a thread that can go on
\* does go on
SpecApiFair ==
    SpecApi /\ \A t \in OverHttp \cup Reqs : WF_vars(ThreadRuns(t))

\* ------------------------------------------------------------------------
\* BufferedSearchEngine (buffered_engine.py). lock is a threading.Lock: any
\* thread may release it, and releasing it unlocked raises RuntimeError
\* ------------------------------------------------------------------------
\* lock.acquire() by thread t
Acquire(t) ==
    /\ ~block
    /\ block' = TRUE
    /\ bowner' = t

\* lines 102-110 of _flush_buffer_unsafe, called by t: the buffer is copied
\* and emptied and the lock released; if another thread has released the
\* lock already, release() raises RuntimeError and the except clause of
\* line 132 is next
TakeBuffer(t, buf) ==
    /\ bloc' = [bloc EXCEPT ![t] = [messages_to_flush |-> buf,
                                    failed_count |-> 0,
                                    raised |-> FALSE]]
    /\ buffer' = <<>>
    /\ block' = FALSE
    /\ bowner' = "none"
    /\ bpc' = [bpc EXCEPT ![t] = IF block THEN "fb_rpc" ELSE "fb_rel"]

\* upsert line 155: the message handler enters "with self.lock"; handlers
\* run until shutdown is called
UpsertLock ==
    /\ bpc[P] = "idle"
    /\ ~stop_event
    /\ arrived < MaxMsgs
    /\ Acquire(P)
    /\ arrived' = arrived + 1
    /\ bpc' = [bpc EXCEPT ![P] = "u_body"]
    /\ UNCHANGED <<buffer, bloc, stats, stop_event, syncVars, otherVars>>

\* upsert lines 156-162
UpsertBody ==
    /\ bpc[P] = "u_body"
    /\ stats' = [stats EXCEPT !.buffered = @ + 1]
    /\ IF Len(buffer) + 1 >= batch_size
       THEN TakeBuffer(P, Append(buffer, arrived))
       ELSE /\ buffer' = Append(buffer, arrived)
            /\ bpc' = [bpc EXCEPT ![P] = "exit"]
            /\ UNCHANGED <<block, bowner, bloc>>
    /\ UNCHANGED <<stop_event, arrived, syncVars, otherVars>>

\* _flush_worker lines 86-89: the wait times out, or the stop event is set
FlushWorkerWake ==
    /\ bpc[F] = "f_wait"
    /\ bpc' = [bpc EXCEPT ![F] = IF stop_event THEN "f_done" ELSE "f_lock"]
    /\ UNCHANGED <<buffer, block, bowner, bloc, stats, stop_event, arrived,
                   syncVars, otherVars>>

\* _flush_worker lines 92-94
FlushWorkerBody ==
    /\ bpc[F] = "f_lock"
    /\ Acquire(F)
    /\ bpc' = [bpc EXCEPT ![F] = "f_body"]
    /\ UNCHANGED <<buffer, bloc, stats, stop_event, arrived, syncVars, otherVars>>

\* the body of "with self.lock" in _flush_worker and in flush (lines 93-94,
\* 175-181), run by t
FlushIfAny(t) ==
    /\ bpc[t] \in {"f_body", "fl_body"}
    /\ IF Len(buffer) > 0
       THEN TakeBuffer(t, buffer)
       ELSE /\ bpc' = [bpc EXCEPT ![t] = "exit"]
            /\ UNCHANGED <<buffer, block, bowner, bloc>>
    /\ UNCHANGED <<stats, stop_event, arrived, syncVars, otherVars>>

\* line 112: upsert_batch answers; failed: its failed_count
RpcAnswers(t, failed) ==
    /\ bpc[t] = "fb_rpc"
    /\ failed <= Len(bloc[t].messages_to_flush)
    /\ bloc' = [bloc EXCEPT ![t].failed_count = failed]
    /\ bpc' = [bpc EXCEPT ![t] = "fb_reacq"]
    /\ UNCHANGED <<buffer, block, bowner, stats, stop_event, arrived, syncVars, otherVars>>

\* lines 115-121: the lock is taken again and the statistics updated
Reacquire(t) ==
    /\ bpc[t] = "fb_reacq"
    /\ Acquire(t)
    /\ stats' = [stats EXCEPT
                   !.flushed = @ + Len(bloc[t].messages_to_flush)
                                 - bloc[t].failed_count,
                   !.batches = @ + 1,
                   !.errors = @ + bloc[t].failed_count]
    /\ bpc' = [bpc EXCEPT ![t] = "exit"]
    /\ bloc' = [bloc EXCEPT ![t].messages_to_flush = <<>>,
                            ![t].failed_count = 0]
    /\ UNCHANGED <<buffer, stop_event, arrived, syncVars, otherVars>>

\* lines 132-137: upsert_batch, or the release before it, raises; the lock
\* is taken only if no thread holds it, and the messages are counted as
\* errors and dropped
RpcRaises(t) ==
    /\ bpc[t] \in {"fb_rpc", "fb_rel"}
    /\ IF block THEN UNCHANGED <<block, bowner>>
       ELSE Acquire(t)
    /\ stats' = [stats EXCEPT !.errors = @ + Len(bloc[t].messages_to_flush)]
    /\ bpc' = [bpc EXCEPT ![t] = "exit"]
    /\ bloc' = [bloc EXCEPT ![t].messages_to_flush = <<>>,
                            ![t].raised = TRUE]
    /\ UNCHANGED <<buffer, stop_event, arrived, syncVars, otherVars>>

\* where t is after its "with self.lock" block
AfterWith(t) ==
    IF t = P THEN "idle"
    ELSE IF t = F THEN "f_wait"
    ELSE IF stop_event THEN "sd_done" ELSE "idle"

\* where t is when the release at the end of the block raises RuntimeError
AfterRaise(t) ==
    IF t = P THEN "idle"
    ELSE IF t = F THEN "f_dead"
    ELSE IF stop_event THEN "sd_raised" ELSE "idle"

\* the end of "with self.lock": lock.release()
ExitWith(t) ==
    /\ bpc[t] = "exit"
    /\ IF block
       THEN /\ block' = FALSE
            /\ bowner' = "none"
            /\ bpc' = [bpc EXCEPT ![t] = AfterWith(t)]
       ELSE /\ bpc' = [bpc EXCEPT ![t] = AfterRaise(t)]
            /\ UNCHANGED <<block, bowner>>
    /\ bloc' = [bloc EXCEPT ![t] = NoFlush]
    /\ UNCHANGED <<buffer, stats, stop_event, arrived, syncVars, otherVars>>

\* flush line 174, called by the main thread: client.py line 389, or from
\* shutdown (line 196)
FlushLock ==
    /\ bpc[M] \in {"idle", "sd_flush"}
    /\ Acquire(M)
    /\ bpc' = [bpc EXCEPT ![M] = "fl_body"]
    /\ UNCHANGED <<buffer, bloc, stats, stop_event, arrived, syncVars, otherVars>>

\* shutdown lines 191-192, called once the message handlers have returned
ShutdownStart ==
    /\ bpc[M] = "idle"
    /\ bpc[P] = "idle"
    /\ ~stop_event
    /\ stop_event' = TRUE
    /\ bpc' = [bpc EXCEPT ![M] = "sd_join"]
    /\ UNCHANGED <<buffer, block, bowner, bloc, stats, arrived, syncVars, otherVars>>

\* shutdown line 193: join(timeout=5) returns when the flush worker has
\* ended, or after 5 s, which an upsert_batch call in flight can outlast
ShutdownJoin ==
    /\ bpc[M] = "sd_join"
    /\ bpc[F] \in {"f_done", "f_dead", "fb_rpc"}
    /\ bpc' = [bpc EXCEPT ![M] = "sd_flush"]
    /\ UNCHANGED <<buffer, block, bowner, bloc, stats, stop_event, arrived,
                   syncVars, otherVars>>

NextBuf ==
    \/ UpsertLock \/ UpsertBody
    \/ FlushWorkerWake \/ FlushWorkerBody
    \/ \E t \in {F, M} : FlushIfAny(t)
    \/ \E t \in BufThreads :
          \/ \E failed \in 0..1 : RpcAnswers(t, failed)
          \/ Reacquire(t) \/ RpcRaises(t) \/ ExitWith(t)
    \/ FlushLock \/ ShutdownStart \/ ShutdownJoin

SpecBuf == InitBuf /\ [][NextBuf]_vars

\* ------------------------------------------------------------------------
\* JWTAuth (jwt_auth.py): generate_token and verify_token over a clock
\* ------------------------------------------------------------------------
Issuers == {"bot", "attacker"}
Audiences == {"userbot", "search"}

\* allowed_issuers as the callers pass it; {} stands for None and for []
AllowedLists == {{}, {"bot"}}

\* the verifying service: JWTAuth(issuer="userbot", audience="userbot")
Server == [kind |-> "auth", issuer |-> "userbot", audience |-> "userbot"]

\* the builds of PyJWT: whether jwt.decode still accepts in the second the
\* token expires, and whether verify_iat rejects an iat in the future
PyJwtBuilds == [exact_second : BOOLEAN, checks_iat : BOOLEAN]

\* the tokens a caller can present: signed with the shared key or not
JTokens ==
    [sig : BOOLEAN, iat : 0..MaxTime, exp : 0..(MaxTime + token_ttl),
     aud : Audiences, iss : Issuers]

\* generate_token lines 89-100, by a service that holds the private key
GeneratedToken(issuer, aud, t) ==
    [sig |-> TRUE, iat |-> t, exp |-> t + token_ttl, aud |-> aud,
     iss |-> issuer]

\* jwt.decode(token, public_key, algorithms, audience, options) of lines
\* 125-136 at time t: TRUE iff it returns the payload
JwtDecode(tok, audience, t, lib) ==
    /\ tok.sig
    /\ tok.exp > t \/ (tok.exp = t /\ lib.exact_second)
    /\ tok.iat <= t \/ ~lib.checks_iat
    /\ tok.aud = audience

\* an issuer check that lets every issuer through
IssuerAllowedAny(iss, allowed_issuers) == TRUE

\* lines 139-143: the issuer is checked only "if allowed_issuers"
IssuerAllowed(iss, allowed_issuers) ==
    allowed_issuers # {} => iss \in allowed_issuers

\* JWTAuth.verify_token at time t: TRUE iff it returns the claims
VerifyTokenAt(auth, tok, allowed_issuers, t, lib) ==
    /\ JwtDecode(tok, auth.audience, t, lib)
    /\ IssuerAllowed(tok.iss, allowed_issuers)

\* time passes
Tick ==
    /\ now < MaxTime
    /\ now' = now + 1
    /\ verdict' = NoVerdict
    /\ UNCHANGED <<held, pyjwt, syncVars, bufVars, botVars, ckVars, extVars>>

\* a service calls generate_token(target_audience)
GenerateToken(issuer, aud) ==
    /\ held' = GeneratedToken(issuer, aud, now)
    /\ verdict' = NoVerdict
    /\ UNCHANGED <<now, pyjwt, syncVars, bufVars, botVars, ckVars, extVars>>

\* the server verifies a presented token
VerifyPresented(tok, allowed_issuers) ==
    /\ verdict' = [tok |-> tok, allowed |-> allowed_issuers, at |-> now,
                   ok |-> VerifyTokenAt(Server, tok, allowed_issuers, now,
                                        pyjwt),
                   minted |-> tok = held]
    /\ UNCHANGED <<now, held, pyjwt, syncVars, bufVars, botVars, ckVars, extVars>>

InitJwt ==
    /\ InitManager(ApiCfg) /\ InitBuffer
    /\ \E lib \in PyJwtBuilds : InitJwtAuth(lib)
    /\ InitBot /\ InitCheckpoint /\ InitExt

NextJwt ==
    \/ Tick
    \/ \E i \in Issuers, a \in Audiences : GenerateToken(i, a)
    \/ \E tok \in JTokens, al \in AllowedLists : VerifyPresented(tok, al)

SpecJwt == InitJwt /\ [][NextJwt]_vars

\* ------------------------------------------------------------------------
\* Search pipeline (bot.py parse_and_search and its handlers, privacy.py,
\* access_control.py)
\* ------------------------------------------------------------------------
\* AccessController.__init__: the configured owner, admins, allowed users,
\* allowed groups and per-user group permissions (user 4 has no entry)
access_controller ==
    [modes |-> {"private", "group"}, owner_id |-> 1, admins |-> {2},
     allowed_users |-> {1, 2, 3, 4}, allowed_groups |-> {11, 12},
     user_group_permissions |-> (3 :> {11})]

Users == {1, 2, 3, 4}
Groups == {11, 12}

\* the ids a privacy file can hold: users who opted out and a channel
Blockable == {3, 21}

\* an indexed message as the engine returns it, written by user 3 or posted
\* by channel 21 (0: the field is absent)
Hits ==
    [chat : Groups, from_user : {3}, sender_chat : {0}]
    \cup [chat : Groups, from_user : {0}, sender_chat : {21}]

\* the pages the search engine can answer with; a chat_id in the request
\* restricts the hits to that chat
Found(chat_id) ==
    {f \in UNION {[1..n -> Hits] : n \in 0..page_size} :
        chat_id # 0 => \A i \in 1..Len(f) : f[i].chat = chat_id}

Ceil(n, per) == (n + per - 1) \div per

\* HTTPSearchEngine.search: the response dictionary of lines 332-339
EngineSearch(found, total, page) ==
    [hits |-> found, totalHits |-> total, totalPages |-> Ceil(total, page_size),
     page |-> page, hitsPerPage |-> page_size]

IsOwner(user_id) == user_id = access_controller.owner_id

IsAdmin(user_id) == user_id \in access_controller.admins

GetAllowedGroupsForUser(user_id) ==
    IF IsOwner(user_id) \/ IsAdmin(user_id)
    THEN access_controller.allowed_groups
    ELSE IF user_id \in DOMAIN access_controller.user_group_permissions
         THEN access_controller.user_group_permissions[user_id]
         ELSE {}

\* a check_access whose private-chat branch does not ask for group mode
check_access_any_private(ms, user_id, chat_type, chat_id) ==
    IF user_id # 0 /\ IsOwner(user_id) THEN TRUE
    ELSE IF "public" \in ms THEN TRUE
    ELSE IF /\ chat_type = "private" /\ "private" \in ms
            /\ user_id # 0 /\ user_id \in access_controller.allowed_users
    THEN TRUE
    ELSE IF chat_type \in {"group", "supergroup"} /\ "group" \in ms
    THEN chat_id \in access_controller.allowed_groups
    ELSE FALSE

\* AccessController.check_access, lines 111-146, with self.modes = ms, for
\* a message of user_id (0: no from_user) in a chat of chat_type
check_access(ms, user_id, chat_type, chat_id) ==
    IF user_id # 0 /\ IsOwner(user_id) THEN TRUE
    ELSE IF "public" \in ms THEN TRUE
    ELSE IF /\ chat_type = "private" /\ "private" \in ms
            /\ "group" \in ms
            /\ user_id # 0 /\ user_id \in access_controller.allowed_users
    THEN TRUE
    ELSE IF /\ chat_type = "private" /\ "private" \in ms
            /\ Cardinality(ms) = 1
    THEN FALSE
    ELSE IF chat_type = "private" /\ "private" \in ms /\ "group" \in ms
    THEN FALSE
    ELSE IF chat_type \in {"group", "supergroup"} /\ "group" \in ms
    THEN chat_id \in access_controller.allowed_groups
    ELSE FALSE

\* check_access under the configured modes for a message of user_id in a
\* private chat (chat_id = 0) or in the group chat_id
CheckAccess(user_id, chat_id) ==
    check_access(access_controller.modes, user_id,
                 IF chat_id = 0 THEN "private" ELSE "group", chat_id)

\* a sender test that looks at from_user only
SenderBlockedByUser(hit, blocked) == hit.from_user \in blocked

\* filter_search_results lines 155-165: the hit is skipped
SenderBlocked(hit, blocked) ==
    hit.from_user \in blocked \/ hit.sender_chat \in blocked

\* a filter that takes the hits left on the page for the new totalHits
FilterSearchResultsPageOnly(results, blocked) ==
    IF blocked = {} THEN results
    ELSE LET filtered_hits ==
                 SelectSeq(results.hits, LAMBDA h : ~SenderBlocked(h, blocked))
         IN  [results EXCEPT
                 !.hits = filtered_hits,
                 !.totalHits = Len(filtered_hits),
                 !.totalPages = IF results.hitsPerPage > 0
                                THEN Ceil(Len(filtered_hits), results.hitsPerPage)
                                ELSE @]

\* PrivacyManager.filter_search_results
FilterSearchResults(results, blocked) ==
    IF blocked = {} THEN results
    ELSE LET filtered_hits ==
                 SelectSeq(results.hits, LAMBDA h : ~SenderBlocked(h, blocked))
             removed_count == Len(results.hits) - Len(filtered_hits)
             totalHits == IF results.totalHits - removed_count > 0
                          THEN results.totalHits - removed_count ELSE 0
         IN  [results EXCEPT
                 !.hits = filtered_hits,
                 !.totalHits = totalHits,
                 !.totalPages = IF results.hitsPerPage > 0
                                THEN Ceil(totalHits, results.hitsPerPage)
                                ELSE @]

\* parse_and_search lines 709-725: the group-permission filter
PermissionFilter(results, chat_id, user_id) ==
    LET allowed_groups == GetAllowedGroupsForUser(user_id)
        filtered_hits ==
            SelectSeq(results.hits, LAMBDA h : h.chat \in allowed_groups)
    IN  IF /\ user_id # 0 /\ chat_id = 0
           /\ ~IsOwner(user_id) /\ ~IsAdmin(user_id)
           /\ allowed_groups # {}
        THEN [results EXCEPT
                 !.hits = filtered_hits,
                 !.totalHits = Len(filtered_hits),
                 !.totalPages = IF results.hitsPerPage > 0
                                THEN Ceil(Len(filtered_hits),
                                          results.hitsPerPage)
                                ELSE 1]
        ELSE results

\* the buttons of generate_navigation: callback data f"p|{page}", f"n|{page}"
PrevButton(page) == <<"p", page>>
NextButton(page) == <<"n", page>>

\* a generate_navigation that does not look at MAX_PAGE
GenerateNavigationUncapped(page, total_pages) ==
    IF total_pages = 1 THEN <<>>
    ELSE IF page = 1
    THEN IF page < total_pages THEN <<NextButton(page)>> ELSE <<>>
    ELSE IF page = total_pages THEN <<PrevButton(page)>>
    ELSE IF page < total_pages THEN <<PrevButton(page), NextButton(page)>>
    ELSE <<PrevButton(page)>>

\* generate_navigation: the row of buttons (<<>>: no keyboard, None)
GenerateNavigation(page, total_pages) ==
    LET at_max_page == page >= MAX_PAGE
        next_page_available == page < total_pages /\ ~at_max_page
    IN  IF total_pages = 1 THEN <<>>
        ELSE IF page = 1
        THEN IF next_page_available THEN <<NextButton(page)>> ELSE <<>>
        ELSE IF page = total_pages \/ at_max_page THEN <<PrevButton(page)>>
        ELSE IF next_page_available
        THEN <<PrevButton(page), NextButton(page)>>
        ELSE <<PrevButton(page)>>

\* parse_and_search: the response to user_id, for the page the engine found
ParseAndSearch(found, total, page, chat_id, apply_privacy_filter, user_id) ==
    LET results == EngineSearch(found, total, page)
        private == IF apply_privacy_filter
                   THEN FilterSearchResults(results, blocked_users)
                   ELSE results
        permitted == PermissionFilter(private, chat_id, user_id)
        base == [NoReply EXCEPT !.to = user_id, !.chat_id = chat_id,
                                !.page = page]
    IN  IF page < 1 \/ page > MAX_PAGE
        THEN [base EXCEPT !.error = TRUE]
        ELSE [base EXCEPT
                 !.found = found, !.engineHits = total,
                 !.filtered = apply_privacy_filter,
                 !.blocked = blocked_users,
                 !.hits = permitted.hits,
                 !.totalHits = permitted.totalHits,
                 !.totalPages = permitted.totalPages,
                 !.hitsPerPage = permitted.hitsPerPage,
                 !.markup = IF permitted.hits = <<>> THEN <<>>
                            ELSE GenerateNavigation(permitted.page,
                                                    permitted.totalPages)]

\* search_command_handler, type_search_handler and search_handler: an
\* accepted message of user_id in a private chat (0) or a group
SearchHandler(user_id, chat_id, found, total) ==
    /\ CheckAccess(user_id, chat_id)
    /\ reply' = ParseAndSearch(found, total, 1, chat_id,
                               ~(chat_id = 0 /\ IsOwner(user_id)), user_id)
    /\ UNCHANGED <<blocked_users, delVars, jwtVars, syncVars, bufVars, ckVars, extVars>>

\* send_method_callback: user_id presses a button of the last response,
\* whose callback data is <<direction, page>>
SendMethodCallback(user_id, button, found, total) ==
    /\ reply.to # 0
    /\ reply.chat_id = 0 => user_id = reply.to
    /\ button \in Range(reply.markup)
    /\ LET direction == button[1]
           page == button[2]
           new_page == IF direction = "n" THEN page + 1 ELSE page - 1
       IN  reply' = [ParseAndSearch(found, total, new_page, reply.chat_id,
                                    ~(reply.chat_id = 0 /\ IsOwner(user_id)),
                                    user_id)
                     EXCEPT !.callback = TRUE]
    /\ UNCHANGED <<blocked_users, delVars, jwtVars, syncVars, bufVars, ckVars, extVars>>

\* block_me_handler: PrivacyManager.block_user
BlockMe(user_id) ==
    /\ blocked_users' = blocked_users \cup {user_id}
    /\ UNCHANGED <<reply, delVars, jwtVars, syncVars, bufVars, ckVars, extVars>>

\* unblock_me_handler: PrivacyManager.unblock_user
UnblockMe(user_id) ==
    /\ blocked_users' = blocked_users \ {user_id}
    /\ UNCHANGED <<reply, delVars, jwtVars, syncVars, bufVars, ckVars, extVars>>

InitSearch ==
    /\ InitManager(ApiCfg) /\ InitBuffer /\ InitJwtAuth(NewPyJwt)
    /\ \E stored \in SUBSET Blockable : InitBotWith(stored)
    /\ InitCheckpoint /\ InitExt

\* the totalHits the engine can report: up to one page beyond MAX_PAGE
Totals == 0..(page_size * MAX_PAGE + 1)

\* the number of hits on a page of an index with total hits
HitsOnPage(total, page) ==
    LET rest == total - (page - 1) * page_size
    IN  IF rest <= 0 THEN 0 ELSE IF rest > page_size THEN page_size ELSE rest

\* what the engine can answer for a page: some total and the hits of that
\* page of it; of the totals with further pages, the next two and the
\* largest are tried
Answers(chat_id, page) ==
    {a \in [found : Found(chat_id), total : Totals] :
        /\ Len(a.found) = HitsOnPage(a.total, page)
        /\ a.total > page * page_size + 2 => a.total = page_size * MAX_PAGE + 1}

NextSearch ==
    \/ \E u \in Users, g \in Groups \cup {0} :
         \E a \in Answers(g, 1) : SearchHandler(u, g, a.found, a.total)
    \/ \E u \in Users, b \in Range(reply.markup) :
         \E a \in Answers(reply.chat_id,
                           IF b[1] = "n" THEN b[2] + 1 ELSE b[2] - 1) :
            SendMethodCallback(u, b, a.found, a.total)
    \/ \E u \in Users \cap Blockable : BlockMe(u)
    \/ \E u \in Users \cap Blockable : UnblockMe(u)

SpecSearch == InitSearch /\ [][NextSearch]_vars

\* ------------------------------------------------------------------------
\* Auto-deletion of paginated replies in groups (bot.py lines 64-115 and
\* send_method_callback). Handlers and tasks share one asyncio event loop:
\* an action is what runs between two awaits, and the loop runs the steps
\* that are ready in the order in which they became ready
\* ------------------------------------------------------------------------
\* the delete_message tasks of message k
TasksOf(k) == {n \in 1..Len(tasks) : tasks[n].key = k}

\* task n is neither cancelled nor finished
Live(n) == tasks[n].st \in {"new", "sleeping", "woken"}

\* Task.cancel() on the task of the entry of k: a task that has not started
\* never runs its body, a sleeping task is made ready to receive
\* CancelledError at its await, a finished task is left alone
Cancel(k) ==
    LET n == deletion_tasks[k] IN
    IF n = 0 THEN [t |-> tasks, q |-> ready]
    ELSE IF tasks[n].st = "new"
    THEN [t |-> [tasks EXCEPT ![n].st = "unstarted"], q |-> ready]
    ELSE IF tasks[n].st = "sleeping"
    THEN [t |-> [tasks EXCEPT ![n].st = "cancelled"],
          q |-> Append(ready, [kind |-> "task", id |-> n])]
    ELSE IF tasks[n].st = "woken"
    THEN [t |-> [tasks EXCEPT ![n].st = "cancelled"], q |-> ready]
    ELSE [t |-> tasks, q |-> ready]

\* the steps that may still create a delete_message task
Budget ==
    Len(tasks) + Len(SelectSeq(ready, LAMBDA e : e.kind = "sched"))
    + Cardinality({c \in Callbacks : cbs[c].st # "idle"})

\* a search handler has posted a reply with a keyboard in a group and
\* creates the schedule_message_deletion task, lines 835-837
PostReply(k) ==
    /\ msg[k].st = "unsent"
    /\ Budget < MaxTasks
    /\ msg' = [msg EXCEPT ![k].st = "shown"]
    /\ ready' = Append(ready, [kind |-> "sched", id |-> k])
    /\ UNCHANGED <<deletion_tasks, tasks, cbs, g_resched, g_touch,
                   searchVars, jwtVars, syncVars, bufVars, ckVars, extVars>>

\* schedule_message_deletion, lines 78-100, as the step at the head of the
\* ready queue
ScheduleMessageDeletion(k) ==
    /\ ready # <<>> /\ Head(ready) = [kind |-> "sched", id |-> k]
    /\ LET c == Cancel(k)
           n == Len(tasks) + 1
       IN  /\ tasks' = Append(c.t, [key |-> k, st |-> "new", due |-> 0])
           /\ ready' = Append(Tail(c.q), [kind |-> "task", id |-> n])
           /\ deletion_tasks' = [deletion_tasks EXCEPT ![k] = n]
    /\ g_resched' = [g_resched EXCEPT ![k] = now]
    /\ UNCHANGED <<cbs, msg, g_touch, searchVars, jwtVars, syncVars, bufVars, ckVars, extVars>>

\* delete_message, lines 80-92, as the step at the head of the ready queue:
\* it starts to sleep, or deletes the message after the sleep, or handles
\* CancelledError; the finally clause removes the entry of the key
DeleteMessage(n) ==
    /\ ready # <<>> /\ Head(ready) = [kind |-> "task", id |-> n]
    /\ ready' = Tail(ready)
    /\ LET k == tasks[n].key
           st == tasks[n].st
       IN  /\ tasks' = [tasks EXCEPT
                           ![n].st = IF st = "new" THEN "sleeping" ELSE "done",
                           ![n].due = IF st = "new" THEN now + delay ELSE @]
           /\ msg' = IF st = "woken" /\ msg[k].st = "shown"
                     THEN [msg EXCEPT ![k] = [st |-> "deleted", by |-> n]]
                     ELSE msg
           /\ deletion_tasks' = IF st \in {"woken", "cancelled"}
                                THEN [deletion_tasks EXCEPT ![k] = 0]
                                ELSE deletion_tasks
    /\ UNCHANGED <<cbs, g_resched, g_touch, searchVars, jwtVars, syncVars,
                   bufVars, ckVars, extVars>>

\* the timer of asyncio.sleep(delay) fires, line 82
TimerFires(n) ==
    /\ tasks[n].st = "sleeping"
    /\ now >= tasks[n].due
    /\ tasks' = [tasks EXCEPT ![n].st = "woken"]
    /\ ready' = Append(ready, [kind |-> "task", id |-> n])
    /\ UNCHANGED <<deletion_tasks, cbs, msg, g_resched, g_touch,
                   searchVars, jwtVars, syncVars, bufVars, ckVars, extVars>>

\* a callback query for message k arrives and its handler is made ready
CallbackArrives(c, k) ==
    /\ cbs[c].st = "idle"
    /\ msg[k].st = "shown"
    /\ Budget < MaxTasks
    /\ cbs' = [cbs EXCEPT ![c] = [st |-> "start", key |-> k]]
    /\ ready' = Append(ready, [kind |-> "cb", id |-> c])
    /\ UNCHANGED <<deletion_tasks, tasks, msg, g_resched, g_touch,
                   searchVars, jwtVars, syncVars, bufVars, ckVars, extVars>>

\* the request a handler awaits (send_chat_action, edit_text) is answered
CallbackAnswered(c) ==
    /\ cbs[c].st = "awaiting"
    /\ cbs' = [cbs EXCEPT ![c].st = "resume"]
    /\ ready' = Append(ready, [kind |-> "cb", id |-> c])
    /\ UNCHANGED <<deletion_tasks, tasks, msg, g_resched, g_touch,
                   searchVars, jwtVars, syncVars, bufVars, ckVars, extVars>>

\* send_method_callback as the step at the head of the ready queue: up to
\* its await it cancels the deletion (lines 916-919, 103-115); after
\* edit_text it creates the schedule task if the new page has a keyboard
\* (lines 963-967); edit_text raises for a message that is gone
SendMethodCallbackStep(c, new_markup) ==
    /\ ready # <<>> /\ Head(ready) = [kind |-> "cb", id |-> c]
    /\ LET k == cbs[c].key IN
       IF cbs[c].st = "start"
       THEN /\ ~new_markup
            /\ tasks' = Cancel(k).t
            /\ ready' = Tail(Cancel(k).q)
            /\ deletion_tasks' = [deletion_tasks EXCEPT ![k] = 0]
            /\ g_touch' = [g_touch EXCEPT ![k] = TasksOf(k)]
            /\ cbs' = [cbs EXCEPT ![c].st = "awaiting"]
       ELSE /\ ready' = IF new_markup /\ msg[k].st = "shown"
                        THEN Append(Tail(ready), [kind |-> "sched", id |-> k])
                        ELSE Tail(ready)
            /\ cbs' = [cbs EXCEPT ![c].st = "idle"]
            /\ UNCHANGED <<tasks, deletion_tasks, g_touch>>
    /\ UNCHANGED <<msg, g_resched, searchVars, jwtVars, syncVars, bufVars, ckVars, extVars>>

InitDel == InitManager(ApiCfg) /\ InitBuffer /\ InitOther

NextDel ==
    \/ Tick
    \/ \E k \in MsgKeys : PostReply(k) \/ ScheduleMessageDeletion(k)
    \/ \E n \in 1..Len(tasks) : DeleteMessage(n)
    \/ \E n \in 1..Len(tasks) : TimerFires(n)
    \/ \E c \in Callbacks, k \in MsgKeys : CallbackArrives(c, k)
    \/ \E c \in Callbacks : CallbackAnswered(c)
    \/ \E c \in Callbacks, m \in BOOLEAN : SendMethodCallbackStep(c, m)

SpecDel == InitDel /\ [][NextDel]_vars

\* ------------------------------------------------------------------------
\* SyncManager seen from its callers: add_chat, the saves of sync_chat and
\* a fresh instance built from the checkpoint file (sync_manager.py)
\* ------------------------------------------------------------------------
ChatIds == {1, 2}

StatusOf(m, c) == IF IndexOf(m, c) = 0 THEN "none" ELSE m[IndexOf(m, c)].status

\* an add_chat that replaces the record whatever its status
add_chat_any(m, c) ==
    IF IndexOf(m, c) # 0
    THEN [map |-> [m EXCEPT ![IndexOf(m, c)] = SyncProgress(c, 0)],
          ret |-> TRUE]
    ELSE [map |-> Append(m, SyncProgress(c, 0)), ret |-> TRUE]

\* SyncManager.add_chat, lines 160-174: the new map and the value returned
add_chat(m, c) ==
    IF IndexOf(m, c) # 0
    THEN IF m[IndexOf(m, c)].status = "completed"
         THEN [map |-> [m EXCEPT ![IndexOf(m, c)] = SyncProgress(c, 0)],
               ret |-> TRUE]
         ELSE [map |-> m, ret |-> FALSE]
    ELSE [map |-> Append(m, SyncProgress(c, 0)), ret |-> TRUE]

\* the latest MaxCalls calls, the newest last
Called(op, c, ret, was) ==
    LET e == [op |-> op, chat |-> c, ret |-> ret, was |-> was]
    IN  IF Len(g_calls) < MaxCalls THEN Append(g_calls, e)
        ELSE Append(Tail(g_calls), e)

\* a caller runs add_chat(c); add_chat does not write the checkpoint
AddChatCall(c) ==
    /\ progress_map' = add_chat(progress_map, c).map
    /\ g_calls' = Called("add_chat", c, add_chat(progress_map, c).ret,
                         StatusOf(progress_map, c))
    /\ UNCHANGED <<checkpoint_file, saveVars, jwtVars, botVars, syncVars,
                   bufVars, extVars>>

\* sync_chat(c) reaches one of its _save_checkpoint calls: the record has
\* the status st and n messages synced, and the whole map is written
SyncChatSaves(c, st, n) ==
    /\ StatusOf(progress_map, c) \in {"pending", "in_progress"}
    /\ n >= progress_map[IndexOf(progress_map, c)].synced_count
    /\ progress_map' =
          [progress_map EXCEPT ![IndexOf(progress_map, c)] =
              [@ EXCEPT !.status = st, !.total_count = HistLen,
                        !.synced_count = n, !.last_message_id = n]]
    /\ checkpoint_file' =
          [i \in 1..Len(progress_map') |-> to_dict(progress_map'[i])]
    /\ g_calls' = Called("sync_chat", c, st # "failed",
                         StatusOf(progress_map, c))
    /\ UNCHANGED <<saveVars, jwtVars, botVars, syncVars, bufVars, extVars>>

\* the process starts again: SyncManager.__init__ runs _load_checkpoint on
\* the checkpoint file
NewInstance ==
    /\ progress_map' = LoadCheckpoint(checkpoint_file)
    /\ g_calls' = Called("load", 0, TRUE, "none")
    /\ UNCHANGED <<checkpoint_file, saveVars, jwtVars, botVars, syncVars,
                   bufVars, extVars>>

InitMap == InitManager(ApiCfg) /\ InitBuffer /\ InitOther

NextMap ==
    \/ \E c \in ChatIds : AddChatCall(c)
    \/ \E c \in ChatIds, st \in {"in_progress", "completed", "failed"},
          n \in {0, HistLen} : SyncChatSaves(c, st, n)
    \/ NewInstance

SpecMap == InitMap /\ [][NextMap]_vars

\* ------------------------------------------------------------------------
\* SyncManager._save_checkpoint on the file system: the "chats" data is
\* built under the lock, written to <file>.tmp and renamed, outside the lock
\* ------------------------------------------------------------------------
\* the complete JSON documents, as the blocks that json.dump hands to the
\* operating system: a short checkpoint and a longer one
Documents == {<<"a1">>, <<"b1", "b2">>}

\* the bytes of an inode after the block b is written at offset off; a
\* write behind the end leaves a hole
WriteAt(content, off, b) ==
    IF off < Len(content) THEN [content EXCEPT ![off + 1] = b]
    ELSE content \o [i \in 1..(off - Len(content)) |-> "hole"] \o <<b>>

\* lines 132-137: thread t builds its data under the lock
SaveBuild(t, data) ==
    /\ savers[t].pc = "idle"
    /\ Len(disk.inodes)
       + Cardinality({u \in Savers : savers[u].pc = "open"}) < MaxInodes
    /\ savers' = [savers EXCEPT ![t] = [NoSave EXCEPT !.pc = "open",
                                                      !.data = data]]
    /\ UNCHANGED <<disk, mapVars, jwtVars, botVars, syncVars, bufVars, extVars>>

\* line 141: open(temp_file, 'w') creates the file or truncates the
\* existing one
SaveOpen(t) ==
    /\ savers[t].pc = "open"
    /\ LET fd == IF disk.tmp = 0 THEN Len(disk.inodes) + 1 ELSE disk.tmp IN
       /\ disk' = [disk EXCEPT
                      !.tmp = fd,
                      !.inodes = IF disk.tmp = 0 THEN Append(@, <<>>)
                                 ELSE [@ EXCEPT ![fd] = <<>>]]
       /\ savers' = [savers EXCEPT ![t].pc = "write", ![t].fd = fd]
    /\ UNCHANGED <<mapVars, jwtVars, botVars, syncVars, bufVars, extVars>>

\* line 142: the next block of the document is written through the open
\* file, at the offset this thread has reached
SaveWrite(t) ==
    /\ savers[t].pc = "write"
    /\ savers[t].off < Len(savers[t].data)
    /\ disk' = [disk EXCEPT !.inodes[savers[t].fd] =
                   WriteAt(@, savers[t].off,
                           savers[t].data[savers[t].off + 1])]
    /\ savers' = [savers EXCEPT ![t].off = @ + 1]
    /\ UNCHANGED <<mapVars, jwtVars, botVars, syncVars, bufVars, extVars>>

\* lines 143-148: the file is closed and os.replace moves <file>.tmp over
\* the checkpoint file; without a <file>.tmp it raises, which is logged
SaveReplace(t) ==
    /\ savers[t].pc = "write"
    /\ savers[t].off = Len(savers[t].data)
    /\ disk' = IF disk.tmp # 0
               THEN [disk EXCEPT !.file = disk.tmp, !.tmp = 0]
               ELSE disk
    /\ savers' = [savers EXCEPT ![t] = NoSave]
    /\ UNCHANGED <<mapVars, jwtVars, botVars, syncVars, bufVars, extVars>>

InitSave == InitManager(ApiCfg) /\ InitBuffer /\ InitOther

NextSave ==
    \/ \E t \in Savers, d \in Documents : SaveBuild(t, d)
    \/ \E t \in Savers : SaveOpen(t)
    \/ \E t \in Savers : SaveWrite(t)
    \/ \E t \in Savers : SaveReplace(t)

SpecSave == InitSave /\ [][NextSave]_vars

\* ------------------------------------------------------------------------
\* SyncManager.start_worker, stop_worker and _sync_worker over the
\* progress map (sync_manager.py lines 500-564)
\* ------------------------------------------------------------------------
MaxWorkers == 2

\* position in m of the first pending record (0: none), lines 512-516
FirstPending(m) ==
    IF \E i \in 1..Len(m) : m[i].status = "pending"
    THEN CHOOSE i \in 1..Len(m) :
            /\ m[i].status = "pending"
            /\ \A j \in 1..(i - 1) : m[j].status # "pending"
    ELSE 0

\* start_worker, lines 541-547
StartWorker ==
    /\ ctl = "idle"
    /\ IF running
       THEN UNCHANGED wkVars
       ELSE /\ Len(workers) < MaxWorkers
            /\ running' = TRUE
            /\ workers' = Append(workers, [pc |-> "loop", chat |-> 0])
            /\ worker_thread' = Len(workers) + 1
            /\ UNCHANGED ctl
    /\ UNCHANGED <<ckVars, jwtVars, botVars, syncVars, bufVars, mqVars, acVars, newVars>>

\* stop_worker, lines 552-559: the flag is cleared and the thread joined
StopWorker ==
    /\ ctl = "idle"
    /\ IF running
       THEN /\ running' = FALSE
            /\ ctl' = IF worker_thread # 0 THEN "join" ELSE "idle"
       ELSE UNCHANGED <<running, ctl>>
    /\ UNCHANGED <<worker_thread, workers, ckVars, jwtVars, botVars,
                   syncVars, bufVars, mqVars, acVars, newVars>>

\* stop_worker, lines 560-564: join(timeout=10) returns when the thread has
\* ended, or after 10 s, which a sync_chat in progress can outlast
JoinReturns ==
    /\ ctl = "join"
    /\ workers[worker_thread].pc \in {"ended", "sync"}
    /\ ctl' = "idle"
    /\ UNCHANGED <<running, worker_thread, workers, ckVars, jwtVars,
                   botVars, syncVars, bufVars, mqVars, acVars, newVars>>

\* _sync_worker line 507, thread w: the test of "while self._running"
WorkerTest(w) ==
    /\ workers[w].pc = "loop"
    /\ workers' = [workers EXCEPT ![w].pc = IF running THEN "scan" ELSE "ended"]
    /\ UNCHANGED <<running, worker_thread, ctl, ckVars, jwtVars, botVars,
                   syncVars, bufVars, mqVars, acVars, newVars>>

\* _sync_worker lines 509-531, thread w: the first pending chat is looked
\* up and sync_chat entered, which sets it in_progress and saves (lines
\* 193-195); with no pending chat the thread sleeps 1 s
WorkerPicks(w) ==
    /\ workers[w].pc = "scan"
    /\ LET i == FirstPending(progress_map)
       IN  IF i # 0
           THEN /\ workers' = [workers EXCEPT
                                 ![w] = [pc |-> "sync",
                                         chat |-> progress_map[i].chat_id]]
                /\ progress_map' = [progress_map EXCEPT
                                      ![i].status = "in_progress"]
                /\ checkpoint_file' =
                      [j \in 1..Len(progress_map') |-> to_dict(progress_map'[j])]
           ELSE /\ workers' = [workers EXCEPT ![w].pc = "loop"]
                /\ UNCHANGED <<progress_map, checkpoint_file>>
    /\ UNCHANGED <<running, worker_thread, ctl, g_calls, saveVars, jwtVars,
                   botVars, syncVars, bufVars, mqVars, acVars, newVars>>

\* sync_chat lines 333-345 and 347-376 in thread w: the record is set to
\* completed or to failed and saved, and the worker loop goes on (line 528)
WorkerSynced(w, st) ==
    /\ workers[w].pc = "sync"
    /\ LET i == IndexOf(progress_map, workers[w].chat)
       IN  /\ progress_map' = [progress_map EXCEPT ![i].status = st]
           /\ checkpoint_file' =
                 [j \in 1..Len(progress_map') |-> to_dict(progress_map'[j])]
    /\ workers' = [workers EXCEPT ![w] = [pc |-> "loop", chat |-> 0]]
    /\ UNCHANGED <<running, worker_thread, ctl, g_calls, saveVars, jwtVars,
                   botVars, syncVars, bufVars, mqVars, acVars, newVars>>

InitWk == InitManager(ApiCfg) /\ InitBuffer /\ InitOther

NextWk ==
    \/ StartWorker \/ StopWorker \/ JoinReturns
    \/ \E w \in 1..Len(workers) :
          \/ WorkerTest(w) \/ WorkerPicks(w)
          \/ \E st \in {"completed", "failed"} : WorkerSynced(w, st)
    \/ \E c \in ChatIds : AddChatCall(c)

SpecWk == InitWk /\ [][NextWk]_vars

\* ------------------------------------------------------------------------
\* MessageStore (message_store.py): enqueue, dequeue and acknowledge on the
\* table messages. time.time() is the clock now, which does not go back
\* and can give two calls the same value
\* ------------------------------------------------------------------------
MaxEnq == 3

Services == {"bot", "userbot"}

\* ORDER BY created_at DESC
BeforeNewestFirst(a, b) ==
    \/ a.created_at > b.created_at
    \/ a.created_at = b.created_at /\ a.rowid <= b.rowid

\* ORDER BY created_at ASC (line 172); SQLite answers the query from the
\* index idx_messages_to_service, where rows of equal created_at come in
\* rowid order
Before(a, b) ==
    \/ a.created_at < b.created_at
    \/ a.created_at = b.created_at /\ a.rowid <= b.rowid

\* the row with id i (the empty sequence: none)
RowOf(i) == SelectSeq(messages, LAMBDA r : r.id = i)

\* MessageStore.dequeue, lines 155-192: the ids of the rows selected
\* (after_id 0: None)
dequeue(to_service, after_id, limit) ==
    LET found == after_id # 0 /\ RowOf(after_id) # <<>>
        rows == SelectSeq(messages,
                    LAMBDA r : /\ r.to = to_service
                               /\ found =>
                                    r.created_at > RowOf(after_id)[1].created_at)
        sorted == SortSeq(rows, Before)
        n == IF limit < Len(sorted) THEN limit ELSE Len(sorted)
    IN  [i \in 1..n |-> sorted[i].id]

\* MessageStore.enqueue, lines 106-132: a new uuid4 id, created_at from
\* the clock, INSERT and commit under the lock; the new row gets a rowid
\* above every row of the table
Enqueue(to_service) ==
    /\ Len(g_enqueued) < MaxEnq
    /\ messages' = Append(messages,
                      [id |-> Len(g_enqueued) + 1, to |-> to_service,
                       created_at |-> now,
                       rowid |-> IF messages = <<>> THEN 1
                                 ELSE messages[Len(messages)].rowid + 1,
                       seen |-> FALSE])
    /\ g_enqueued' = Append(g_enqueued, Len(g_enqueued) + 1)
    /\ UNCHANGED <<deq, acks, wkVars, ckVars, jwtVars, botVars, syncVars,
                   bufVars, acVars, newVars>>

\* a dequeue call and what it returned; seen: the row has been returned by
\* a dequeue (ghost)
Dequeue(to_service, after_id, limit) ==
    /\ deq' = [to |-> to_service, after_id |-> after_id, limit |-> limit,
               items |-> dequeue(to_service, after_id, limit)]
    /\ messages' = [i \in 1..Len(messages) |->
                      IF messages[i].id \in Range(deq'.items)
                      THEN [messages[i] EXCEPT !.seen = TRUE]
                      ELSE messages[i]]
    /\ UNCHANGED <<g_enqueued, acks, wkVars, ckVars, jwtVars, botVars,
                   syncVars, bufVars, acVars, newVars>>

\* MessageStore.acknowledge, lines 214-230: DELETE of the row with the id
Acknowledge(message_id) ==
    /\ RowOf(message_id) # <<>>
    /\ messages' = SelectSeq(messages, LAMBDA r : r.id # message_id)
    /\ acks' = acks \cup {RowOf(message_id)[1]}
    /\ UNCHANGED <<g_enqueued, deq, wkVars, ckVars, jwtVars, botVars, syncVars,
                   bufVars, acVars, newVars>>

InitMq == InitManager(ApiCfg) /\ InitBuffer /\ InitOther

NextMq ==
    \/ Tick
    \/ \E x \in Services : Enqueue(x)
    \/ \E x \in Services, l \in {1, MaxEnq} :
          \E a \in {0} \cup (IF deq.items = <<>> THEN {}
                              ELSE {deq.items[Len(deq.items)]}) :
             Dequeue(x, a, l)
    \/ \E i \in 1..MaxEnq : Acknowledge(i)

SpecMq == InitMq /\ [][NextMq]_vars

\* ------------------------------------------------------------------------
\* AccessController.check_access under every BOT_MODE (access_control.py)
\* ------------------------------------------------------------------------
\* who sends: nobody (a channel post or an anonymous admin), the owner,
\* an allowed user, a user who is not allowed
Senders == {0, 1, 2, 5}

\* the messages: a private chat is written with chat id 0; groups 11 and
\* 12 are allowed, 13 is not
Incoming ==
    [user_id : Senders \ {0}, chat_type : {"private"}, chat_id : {0}]
    \cup [user_id : Senders, chat_type : {"group", "supergroup"},
          chat_id : Groups \cup {13}]
    \cup [user_id : {0}, chat_type : {"channel"}, chat_id : {13}]

\* require_access lines 163-164: check_access on an incoming message
CheckAccessCall(m) ==
    /\ decision' = [user_id |-> m.user_id, chat_type |-> m.chat_type,
                    chat_id |-> m.chat_id,
                    has_access |-> check_access(modes, m.user_id,
                                                m.chat_type, m.chat_id)]
    /\ UNCHANGED <<modes, wkVars, mqVars, ckVars, jwtVars, botVars, syncVars,
                   bufVars, newVars>>

InitAc ==
    /\ InitManager(ApiCfg) /\ InitBuffer /\ InitJwtAuth(NewPyJwt)
    /\ InitBot /\ InitCheckpoint /\ InitWorker /\ InitStore /\ InitNew
    /\ \E ms \in SUBSET BotModes : InitAccess(ms)

NextAc == \E m \in Incoming : CheckAccessCall(m)

SpecAc == InitAc /\ [][NextAc]_vars

\* ------------------------------------------------------------------------
\* Properties
\* ------------------------------------------------------------------------
\* thread t is past the lookup of sync_chat and has not returned from it
InSyncChat(t) == loc[t].prog # 0

\* C1: at most one execution of sync_chat is in progress at any time,
\* whichever of the worker, POST /api/v1/sync, resume and sync_all started it
C1_OneSyncAtATime == Cardinality({t \in SyncThreads : InSyncChat(t)}) <= 1

\* C2: once pause_chat has paused a record that was in_progress, the running
\* sync_chat sends at most the batch in flight and never overwrites the
\* status with completed or failed
C2_PauseTakesEffect ==
    \A o \in ObjIds :
        g_pause[o] >= 0 =>
            /\ g_pause[o] <= 1
            /\ objs[o].status \notin {"completed", "failed"}

\* C3: no mutator of the Sync Manager blocks forever holding the mutex:
\* no thread waits for the lock while it is the thread that holds it
C3_MutexReleased ==
    \A t \in Threads : ~(lock = t /\ pc[t] \in {"sv_lock", "add_lock"})

\* C4: when shutdown has returned, the buffer is empty and every message
\* counted as buffered is counted as flushed or as an error
C4_DrainedAtShutdown ==
    bpc[M] = "sd_done" =>
        /\ Len(buffer) = 0
        /\ stats.flushed + stats.errors = stats.buffered

\* the documents of chat c from the newest down to id
DownTo(c, id) == Docs(c, id..HistLen)

\* C5: the checkpoint's last_message_id never lies beyond a
\* message the search engine has not indexed
C5_CheckpointOnlyIndexed ==
    \A i \in 1..Len(file) :
        file[i].last_message_id # 0 =>
            DownTo(file[i].chat_id, file[i].last_message_id) \subseteq engine_docs

\* what sync_chat does keep: the checkpoint's last_message_id never lies
\* beyond a message whose batch the search engine has not answered, and a
\* running sync_chat has every message of an unanswered batch in hand or
\* still to fetch
AnsweredBeforeCheckpoint ==
    /\ \A i \in 1..Len(file) :
          file[i].last_message_id # 0 =>
              DownTo(file[i].chat_id, file[i].last_message_id) \subseteq g_acked
    /\ \A t \in SyncThreads :
          pc[t] = "sc_batch" =>
              \A m \in 1..HistLen :
                  \/ <<loc[t].chat, m>> \in g_acked
                  \/ m \in Range(loc[t].batch)
                  \/ m <= loc[t].next_id

\* chat c was loaded from the checkpoint with a batch checkpointed, its
\* record is still the loaded one, and its sync met no failure, no pause,
\* no other sync_chat running beside it and no message arriving between
\* the count and the fetch
Resumed(c) ==
    /\ restarts > 0
    /\ pm[c] # 0
    /\ g_loaded[c].chat_id = c
    /\ Prog(c).epoch = g_loaded[c].epoch
    /\ g_loaded[c].last_message_id # 0
    /\ ~g_tainted[c]

Remaining(c) == Docs(c, 1..(g_loaded[c].last_message_id - 1))

SentFor(c) == {d \in g_sent : d[1] = c}

C7_CheckpointMonotonic ==
    [][\A i \in 1..Len(file), j \in 1..Len(file') :
          file[i].chat_id = file'[j].chat_id
          => /\ file'[j].synced_count >= file[i].synced_count
             /\ file[i].last_message_id # 0 =>
                   /\ file'[j].last_message_id # 0
                   /\ file'[j].last_message_id <= file[i].last_message_id]_vars

\* C8: synced_count <= total_count in every progress record
C8_SyncedWithinTotal ==
    \A o \in ObjIds : objs[o].synced_count <= objs[o].total_count

AllowedSteps ==
    {<<"pending", "in_progress">>, <<"in_progress", "completed">>,
     <<"in_progress", "failed">>, <<"in_progress", "paused">>,
     <<"paused", "pending">>, <<"failed", "pending">>}

\* C9: while the process runs, the status of a record changes only along
\* pending -> in_progress, in_progress -> completed | failed | paused,
\* paused -> pending and failed -> pending
C9_StatusSteps ==
    [][\A o \in ObjIds :
          (/\ restarts' = restarts
           /\ objs[o].chat_id # 0
           /\ objs'[o].chat_id = objs[o].chat_id
           /\ objs'[o].epoch = objs[o].epoch
           /\ objs'[o].status # objs[o].status)
          => <<objs[o].status, objs'[o].status>> \in AllowedSteps]_vars

\* C10: a sync-control request without a valid JWT is answered 401 and
\* leaves the Sync Manager as it was
C10_Unauthorized ==
    [][\A r \in Reqs, c \in Chats \cup {0}, tok \in Tokens \ {GoodToken} :
          HttpRequest(r, c, tok) =>
              (resp'[r] = 401 /\ UNCHANGED managerVars)]_vars

\* the conditions C11 names, for the last verify_token call
NamedConditions(v) ==
    /\ v.tok.sig
    /\ v.tok.iat <= v.at /\ v.at <= v.tok.exp
    /\ v.tok.aud = Server.audience
    /\ v.tok.iss \in v.allowed

\* C11: verify_token accepts a token if and only if it is signed with the
\* shared key, iat <= now <= exp, aud is the verifier's audience and iss is
\* in the allowed-issuers list; a token generate_token minted is accepted
\* until its TTL has elapsed and rejected afterwards
C11_VerifyIff ==
    verdict # NoVerdict =>
        /\ verdict.ok <=> NamedConditions(verdict)
        /\ (verdict.minted /\ verdict.tok.aud = Server.audience
               /\ verdict.tok.iss \in verdict.allowed)
           => (verdict.ok <=> verdict.at - verdict.tok.iat <= token_ttl)

\* C11, amended: an accepted token is signed, not past exp, has the
\* verifier's audience and, when a list of issuers was given, an issuer on
\* the list; and every such token with iat <= now < exp is accepted
C11_VerifyBetween ==
    verdict # NoVerdict =>
        LET tok == verdict.tok
            base == /\ tok.sig
                    /\ tok.aud = Server.audience
                    /\ verdict.allowed # {} => tok.iss \in verdict.allowed
        IN  /\ verdict.ok => (base /\ verdict.at <= tok.exp)
            /\ (base /\ tok.iat <= verdict.at /\ verdict.at < tok.exp)
               => verdict.ok

\* C11 witness: a generated token was accepted by an endpoint with a list of
\* issuers some time after it was generated
C11_Witness ==
    /\ verdict.minted
    /\ verdict.ok
    /\ verdict.allowed # {}
    /\ verdict.tok.iss \in verdict.allowed

\* C12: every hit of a response to a user who is neither owner nor admin is
\* in a chat of the user's allowed groups, so that a user whose allowed set
\* is empty receives no hits
C12_PermissionContainment ==
    (reply.to # 0 /\ ~reply.error /\ ~IsOwner(reply.to) /\ ~IsAdmin(reply.to))
    => \A i \in 1..Len(reply.hits) :
          reply.hits[i].chat \in GetAllowedGroupsForUser(reply.to)

\* the number of hits of the engine's page that a blocked sender wrote
BlockedFound(r) ==
    Cardinality({i \in 1..Len(r.found) :
                    r.found[i].from_user \in r.blocked
                    \/ r.found[i].sender_chat \in r.blocked})

\* C13: a response to anyone but the owner in a private chat, from a search
\* or from a pagination callback, has no hit whose from_user or sender_chat
\* is in the blocked set of the moment of filtering, and its totalHits and
\* totalPages are those of the count after filtering
C13_PrivacyFilterComplete ==
    (reply.to # 0 /\ ~reply.error
     /\ ~(IsOwner(reply.to) /\ reply.chat_id = 0))
    => /\ reply.filtered
       /\ \A i \in 1..Len(reply.hits) :
             /\ reply.hits[i].from_user \notin reply.blocked
             /\ reply.hits[i].sender_chat \notin reply.blocked
       /\ \/ reply.totalHits = reply.engineHits - BlockedFound(reply)
          \/ reply.totalHits = Len(reply.hits)
       /\ reply.totalPages = Ceil(reply.totalHits, reply.hitsPerPage)

\* a callback response to a user other than the owner from which the filter
\* removed the post of a blocked channel and kept another hit
C13_Witness ==
    /\ reply.callback /\ reply.to = 3 /\ ~reply.error
    /\ 21 \in reply.blocked
    /\ BlockedFound(reply) > 0
    /\ reply.hits # <<>>

\* C14: for every key at most one deletion task is neither cancelled nor
\* finished, and the entry of the key in deletion_tasks, when present, is
\* exactly that task
C14_OneLiveTask ==
    \A k \in MsgKeys :
        LET live == {n \in TasksOf(k) : Live(n)} IN
        /\ Cardinality(live) <= 1
        /\ deletion_tasks[k] # 0 => live = {deletion_tasks[k]}

\* C15: the message is never auto-deleted by a task created before the most
\* recent callback interaction, nor earlier than the delay after the latest
\* re-schedule
C15_NoEarlyDeletion ==
    [][\A k \in MsgKeys :
          (msg[k].st = "shown" /\ msg'[k].st = "deleted")
          => /\ msg'[k].by \notin g_touch[k]
             /\ now >= g_resched[k] + delay]_vars

\* the step is a call of add_chat(c)
AddChatStep(c) ==
    /\ g_calls' # g_calls
    /\ g_calls'[Len(g_calls')].op = "add_chat"
    /\ g_calls'[Len(g_calls')].chat = c

\* C16: add_chat on an unknown chat appends a pending record and returns
\* true; on a completed chat it replaces the record with a fresh pending one
\* and returns true; on a chat in any other state it returns false; no
\* other record changes
C16_AddChat ==
    [][\A c \in ChatIds :
          AddChatStep(c) =>
             LET i == IndexOf(progress_map, c)
                 ret == g_calls'[Len(g_calls')].ret
             IN  IF i = 0
                 THEN /\ ret
                      /\ progress_map' =
                            Append(progress_map, SyncProgress(c, 0))
                 ELSE IF progress_map[i].status = "completed"
                 THEN /\ ret
                      /\ progress_map' =
                            [progress_map EXCEPT ![i] = SyncProgress(c, 0)]
                 ELSE /\ ~ret
                      /\ progress_map' = progress_map]_vars

\* the latest call was add_chat on a failed chat, with another chat enrolled
C16_Witness ==
    /\ g_calls # <<>>
    /\ g_calls[Len(g_calls)].op = "add_chat"
    /\ g_calls[Len(g_calls)].was = "failed"
    /\ ~g_calls[Len(g_calls)].ret
    /\ Len(progress_map) = 2

\* C17: calling add_chat on a chat whose record is failed returns the
\* record to pending
C17_FailedToPending ==
    [][\A c \in ChatIds :
          (AddChatStep(c) /\ StatusOf(progress_map, c) = "failed")
          => StatusOf(progress_map', c) = "pending"]_vars

\* C18: after add_chat(a); add_chat(b), a fresh instance built from the
\* checkpoint file has both a and b with status pending
C18_RoundTrip ==
    \A a \in ChatIds : \A b \in ChatIds \ {a} :
       (/\ Len(g_calls) >= 3
        /\ g_calls[Len(g_calls) - 2].op = "add_chat"
        /\ g_calls[Len(g_calls) - 2].chat = a
        /\ g_calls[Len(g_calls) - 1].op = "add_chat"
        /\ g_calls[Len(g_calls) - 1].chat = b
        /\ g_calls[Len(g_calls)].op = "load")
       => /\ StatusOf(progress_map, a) = "pending"
          /\ StatusOf(progress_map, b) = "pending"

\* C19: after the start every stored record that is not completed is in
\* the map as pending with its synced_count and last_message_id, and every
\* stored completed record is in the map as well
C19_LoadKeepsRecords ==
    (g_calls # <<>> /\ g_calls[Len(g_calls)].op = "load")
    => \A i \in 1..Len(checkpoint_file) :
          LET d == checkpoint_file[i]
              j == IndexOf(progress_map, d.chat_id)
          IN  /\ j # 0
              /\ d.status # "completed" =>
                    /\ progress_map[j].status = "pending"
                    /\ progress_map[j].synced_count = d.synced_count
                    /\ progress_map[j].last_message_id = d.last_message_id

\* C20: the checkpoint file holds at every instant a complete document,
\* the previous one or the new one, never a torn or partial one, also when
\* several threads save at the same time through the shared .tmp file
C20_NeverTorn ==
    disk.file # 0 => disk.inodes[disk.file] \in Documents

\* C21: no upsert call waits for upsert_batch to answer: the message
\* handler is never inside the batch RPC
C21_UpsertNeverInRpc ==
    bpc[P] # "fb_rpc"

\* t is between lock.acquire() and the lock.release() of its "with" block,
\* where the buffer and the counters are read and written
InSection(t) == bpc[t] \in {"u_body", "f_body", "fl_body", "exit"}

\* C22: every thread inside a section that reads or writes the buffer or
\* the counters holds the lock, so no two threads are inside at once, and
\* a thread whose batch RPC is in flight does not hold it
C22_MutualExclusion ==
    \A t \in BufThreads :
        /\ InSection(t) => (block /\ bowner = t)
        /\ bpc[t] = "fb_rpc" => bowner # t

\* C23: a call whose batch RPC failed leaves its "with" block without
\* raising: the release at the end of the block finds the lock held
C23_FailedFlushReturns ==
    [][\A t \in BufThreads :
          (bpc[t] = "exit" /\ bloc[t].raised /\ bpc'[t] # "exit") => block]_vars

\* C24: a flush() whose batch RPC failed does not return normally: the
\* only error it can raise is the one of the release at the end of its
\* "with" block, so that release finds the lock unlocked
C24_FlushSurfacesFailure ==
    [][(bpc[M] = "exit" /\ bloc[M].raised /\ bpc'[M] # "exit") => ~block]_vars

\* chat c has a record and it is pending
IsPending(c) == c \in Keys /\ Prog(c).status = "pending"

\* C25: while the worker runs, every chat whose record is pending
\* eventually leaves pending
C25_PendingLeaves ==
    \A c \in Chats : IsPending(c) ~> ~IsPending(c)

\* the SyncWorker threads that have not left _sync_worker
InWorkerLoop == {w \in 1..Len(workers) : workers[w].pc # "ended"}

\* C26: whatever start_worker and stop_worker calls are made, at most one
\* thread is executing the worker loop
C26_OneWorker == Cardinality(InWorkerLoop) <= 1

\* the ids enqueued for service x and not acknowledged, in enqueue order
Unacknowledged(x) ==
    SelectSeq(g_enqueued,
              LAMBDA i : RowOf(i) # <<>> /\ RowOf(i)[1].to = x)

\* C27: a dequeue for service x with a limit that covers them returns
\* exactly the messages enqueued for x and not acknowledged, in enqueue
\* order (a smaller limit: the first of them), so it returns nothing once
\* each has been acknowledged
C27_QueueRoundTrip ==
    \A x \in Services, l \in 1..MaxEnq :
        LET u == Unacknowledged(x)
        IN  dequeue(x, 0, l) = SubSeq(u, 1, IF l < Len(u) THEN l ELSE Len(u))

\* two messages for one service, enqueued at different times, were
\* returned by a dequeue and acknowledged, and the latest dequeue for that
\* service returned no items
C27_Witness ==
    /\ deq.to \in Services /\ deq.after_id = 0 /\ deq.items = <<>>
    /\ \E a \in acks, b \in acks :
          /\ a.to = deq.to /\ b.to = deq.to
          /\ a.seen /\ b.seen
          /\ a.created_at < b.created_at

\* the response r shows a page of results (not an error text, not "No
\* results found")
Rendered(r) == r.to # 0 /\ ~r.error /\ r.hits # <<>>

\* the row of buttons has a Next button
HasNext(markup) == \E i \in 1..Len(markup) : markup[i][1] = "n"

\* C28: the page of every rendered response is at most totalPages, as
\* recomputed by the privacy and permission filters, and at most MAX_PAGE;
\* generate_navigation gives no Next button for a page at or beyond MAX_PAGE
C28_PageBound ==
    /\ Rendered(reply) =>
          /\ reply.page <= reply.totalPages
          /\ reply.page <= MAX_PAGE
          /\ reply.page >= MAX_PAGE => ~HasNext(reply.markup)
    /\ \A page \in MAX_PAGE..(MAX_PAGE + 1), total_pages \in 0..(MAX_PAGE + 2) :
          ~HasNext(GenerateNavigation(page, total_pages))

\* a rendered response for page MAX_PAGE where the engine has more pages,
\* from which the privacy filter removed a hit, with a Prev button only
C28_Witness ==
    /\ Rendered(reply) /\ reply.callback
    /\ reply.page = MAX_PAGE /\ reply.engineHits > page_size * MAX_PAGE
    /\ Len(reply.hits) < Len(reply.found)
    /\ reply.markup = <<PrevButton(MAX_PAGE)>>

\* the keyboard by page position: none for a single page, Next on the
\* first page, Prev and Next between, Prev at the limit min(total_pages,
\* MAX_PAGE)
NavigationTable(page, total_pages) ==
    LET limit == IF total_pages < MAX_PAGE THEN total_pages ELSE MAX_PAGE
    IN  IF total_pages <= 1 THEN <<>>
        ELSE IF page = 1 THEN <<NextButton(page)>>
        ELSE IF page < limit THEN <<PrevButton(page), NextButton(page)>>
        ELSE <<PrevButton(page)>>

C30_AccessIff ==
    decision.chat_type # "none" =>
       (decision.has_access <=>
          \/ decision.user_id = access_controller.owner_id
          \/ "public" \in modes
          \/ /\ decision.chat_type = "private"
             /\ "private" \in modes
             /\ decision.user_id \in access_controller.allowed_users
             /\ modes = {"private"} =>
                   decision.user_id = access_controller.owner_id
          \/ /\ decision.chat_type \in {"group", "supergroup"}
             /\ "group" \in modes
             /\ decision.chat_id \in access_controller.allowed_groups)

\* private is the sole mode and an allowed user who is not the owner was
\* refused in a private chat
C30_Witness ==
    /\ modes = {"private"}
    /\ decision.chat_type = "private"
    /\ decision.user_id \in access_controller.allowed_users
    /\ decision.user_id # access_controller.owner_id
    /\ ~decision.has_access

\* ------------------------------------------------------------------------
\* POST /api/v1/sync on a process that has synced chat 1 before, or not
\* ------------------------------------------------------------------------
\* the record of a chat whose sync has completed
CompletedRecord(c) ==
    [SyncProgress(c, 0) EXCEPT !.total_count = HistLen,
                               !.synced_count = HistLen,
                               !.last_message_id = 1,
                               !.status = "completed"]

\* the Sync Manager after sync_chat(1) has returned True: the record is
\* completed and saved, the worker is back in its loop; the ghosts count
\* from here on
InitManagerSynced(c) ==
    /\ cfg = c
    /\ pm_order = <<1>>
    /\ pm = [k \in Chats |-> IF k = 1 THEN 1 ELSE 0]
    /\ objs = [i \in ObjIds |-> IF i = 1 THEN CompletedRecord(1) ELSE Blank]
    /\ lock = "free"
    /\ pc = [t \in Threads |->
                IF t = W THEN "w_scan" ELSE IF t = A THEN "a_done" ELSE "idle"]
    /\ loc = [t \in Threads |-> NoLocals]
    /\ current_sync = 0
    /\ file = <<to_dict(CompletedRecord(1))>>
    /\ engine_docs = Docs(1, 1..HistLen)
    /\ jwt_auth = InitSyncApi(c)
    /\ resp = [r \in Reqs |-> 0]
    /\ restarts = 0
    /\ faults = 0
    /\ g_acked = Docs(1, 1..HistLen)
    /\ g_sent = Docs(1, 1..HistLen)
    /\ g_loaded = [k \in Chats |-> Blank]
    /\ g_tainted = [k \in Chats |-> FALSE]
    /\ g_pause = [i \in ObjIds |-> -1]
    /\ g_epoch = [k \in Chats |-> 0]

InitAdd ==
    /\ InitManager(ApiCfg) \/ InitManagerSynced(ApiCfg)
    /\ InitBuffer /\ InitOther

NextAdd ==
    \/ \E t \in OverHttp : SvLock(t) \/ SvWrite(t)
    \/ \E t \in OverHttp :
          \/ ScEnter(t) \/ ScCount(t, FALSE) \/ ScFloodWait(t)
          \/ ScUpsert(t, {}) \/ ScTail(t, {})
    \/ WorkerScan
    \/ SyncAllInit
    \/ \E r \in Reqs, c \in Chats \cup {0}, tok \in Tokens : HttpAddSync(r, c, tok)

SpecAdd == InitAdd /\ [][NextAdd]_vars

\* C31: a POST /api/v1/sync that passes the checks answers 409 for a chat
\* that is enrolled and not completed, starts no sync_chat thread and
\* leaves the map and its records as they are; for an unknown or a
\* completed chat it answers 200, the chat's record is a pending one, and a
\* thread is started on sync_chat
C31_AddSyncConflict ==
    [][\A r \in Reqs, c \in Chats, tok \in Tokens :
          (HttpAddSync(r, c, tok) /\ Precheck(c, tok, TRUE) = 0) =>
             IF c \in Keys /\ Prog(c).status # "completed"
             THEN /\ resp'[r] = 409
                  /\ UNCHANGED <<pm_order, pm, objs, pc, loc, file>>
             ELSE /\ resp'[r] = 200
                  /\ objs'[pm'[c]].status = "pending"
                  /\ objs'[pm'[c]].synced_count = 0
                  /\ \E s \in Spawned :
                        /\ pc[s] = "idle" /\ pc'[s] = "sc_enter"
                        /\ loc'[s].chat = c]_vars

\* a completed chat was enrolled again and its new sync is under way when
\* another POST for it is answered 409
C31_Witness ==
    /\ resp["r1"] = 409
    /\ 1 \in Keys
    /\ Prog(1).status = "in_progress"
    /\ Prog(1).epoch = 1
    /\ file # <<>> /\ file[1].status = "completed"

\* ------------------------------------------------------------------------
\* PrivacyManager (privacy.py): block_user and unblock_user under _lock,
\* _save_to_storage, and a new PrivacyManager built from the file
\* ------------------------------------------------------------------------
UserIds == {1, 2, 3}

RECURSIVE ListOf(_)
\* list(self._blocked_users): the elements of the set, each once
ListOf(S) ==
    IF S = {} THEN <<>>
    ELSE LET x == CHOOSE y \in S : \A z \in S : y <= z
         IN  <<x>> \o ListOf(S \ {x})

\* _load_from_storage, lines 38-48: the set of the stored list, or the
\* empty set without a file
LoadFromStorage(f) == IF f.exists THEN Range(f.blocked_users) ELSE {}

\* _save_to_storage, lines 52-65: the file after the call; written: the
\* temporary file was written and renamed over the file. An exception of
\* open, json.dump or os.replace is logged and the file stays as it was
SaveToStorage(users, written) ==
    IF written THEN [exists |-> TRUE, blocked_users |-> ListOf(users)]
    ELSE privacy_file

\* block_user, lines 76-82
BlockUser(user_id, written) ==
    LET was_new == user_id \notin blocked_users IN
    /\ blocked_users' = blocked_users \cup {user_id}
    /\ privacy_file' = IF was_new
                       THEN SaveToStorage(blocked_users', written)
                       ELSE privacy_file
    /\ pcall' = [op |-> "block_user", user_id |-> user_id, ret |-> was_new]
    /\ UNCHANGED <<reply, delVars, jwtVars, ckVars, syncVars, bufVars,
                   wkVars, mqVars, acVars, liveVars, loopVars>>

\* unblock_user, lines 94-100
UnblockUser(user_id, written) ==
    LET was_blocked == user_id \in blocked_users IN
    /\ blocked_users' = blocked_users \ {user_id}
    /\ privacy_file' = IF was_blocked
                       THEN SaveToStorage(blocked_users', written)
                       ELSE privacy_file
    /\ pcall' = [op |-> "unblock_user", user_id |-> user_id,
                 ret |-> was_blocked]
    /\ UNCHANGED <<reply, delVars, jwtVars, ckVars, syncVars, bufVars,
                   wkVars, mqVars, acVars, liveVars, loopVars>>

\* the bot starts again: PrivacyManager.__init__, lines 30-34
NewPrivacyManager ==
    /\ blocked_users' = LoadFromStorage(privacy_file)
    /\ pcall' = NoCall
    /\ UNCHANGED <<privacy_file, reply, delVars, jwtVars, ckVars, syncVars,
                   bufVars, wkVars, mqVars, acVars, liveVars, loopVars>>

InitPriv == InitManager(ApiCfg) /\ InitBuffer /\ InitOther

NextPriv ==
    \/ \E u \in UserIds, w \in BOOLEAN : BlockUser(u, w)
    \/ \E u \in UserIds, w \in BOOLEAN : UnblockUser(u, w)
    \/ NewPrivacyManager

SpecPriv == InitPriv /\ [][NextPriv]_vars

\* C32: after a block_user or unblock_user call has returned, a
\* PrivacyManager loaded from the privacy file holds the users the running
\* one holds
C32_OptOutDurable ==
    pcall.op # "none" => LoadFromStorage(privacy_file) = blocked_users

\* ------------------------------------------------------------------------
\* One message on its two ways into the search engine: the live handlers
\* of client.py through the Buffered Indexer, and sync_chat's backfill.
\* Versions count the edits; the engine keeps one document per composite id
\* ------------------------------------------------------------------------
MaxEdits == 2

\* POST /api/v1/upsert and /upsert/batch: the document of the id is
\* replaced by the payload, which _convert_message_to_dict builds with
\* is_deleted False and deleted_at 0 (http_engine.py lines 201-225)
EngineUpsert(version) ==
    [exists |-> TRUE, version |-> version, is_deleted |-> FALSE]

\* POST /api/v1/messages/soft-delete: the flag is set on the document the
\* engine holds; without one there is nothing to mark
EngineSoftDelete(d) ==
    IF d.exists THEN [d EXCEPT !.is_deleted = TRUE] ELSE d

\* the document after a batch that carries the message once or more
AfterBatch(d, batch) ==
    IF batch = <<>> THEN d ELSE EngineUpsert(batch[Len(batch)])

notLive == <<syncVars, bufVars, jwtVars, botVars, ckVars, wkVars, mqVars,
             acVars, privVars, loopVars>>

\* BufferedSearchEngine.upsert, lines 155-162, with the message as the
\* handler received it: appended, and at batch_size the whole buffer is
\* taken for an RPC
BufferedUpsert(version) ==
    IF Len(lv.buffer) + 1 >= batch_size
    THEN [buffer |-> <<>>,
          flights |-> Append(lv.flights, Append(lv.buffer, version))]
    ELSE [lv EXCEPT !.buffer = Append(@, version)]

\* the message is edited and message_edit_handler upserts the new version
\* (client.py lines 100-121)
EditMessage ==
    /\ ~tg.deleted
    /\ tg.version <= MaxEdits
    /\ tg' = [tg EXCEPT !.version = @ + 1]
    /\ lv' = BufferedUpsert(tg.version + 1)
    /\ UNCHANGED <<doc, bf, notLive>>

\* the message is deleted and deleted_messages_handler calls
\* soft_delete_message, which __getattr__ hands to the engine directly
\* (client.py lines 124-133, buffered_engine.py lines 215-217)
DeletedMessage ==
    /\ ~tg.deleted
    /\ tg' = [tg EXCEPT !.deleted = TRUE]
    /\ doc' = EngineSoftDelete(doc)
    /\ UNCHANGED <<lv, bf, notLive>>

\* the flush worker wakes up on a buffer that is not empty
\* (buffered_engine.py lines 92-94, 102-110)
LiveFlush ==
    /\ lv.buffer # <<>>
    /\ lv' = [buffer |-> <<>>, flights |-> Append(lv.flights, lv.buffer)]
    /\ UNCHANGED <<tg, doc, bf, notLive>>

\* the engine answers the upsert_batch call of one of the threads that are
\* in _flush_buffer_unsafe line 112
LiveRpc(i) ==
    /\ i \in 1..Len(lv.flights)
    /\ doc' = AfterBatch(doc, lv.flights[i])
    /\ lv' = [lv EXCEPT !.flights =
                 SubSeq(@, 1, i - 1) \o SubSeq(@, i + 1, Len(@))]
    /\ UNCHANGED <<tg, bf, notLive>>

\* sync_chat lines 227-231: get_chat_history yields the message as it is
\* now; a deleted message is not part of the history
SyncFetch ==
    /\ bf.st = "pending"
    /\ bf' = [st |-> "fetched", copy |-> IF tg.deleted THEN 0 ELSE tg.version]
    /\ UNCHANGED <<tg, doc, lv, notLive>>

\* sync_chat lines 237 and 313: upsert_batch on message_batch
SyncUpsert ==
    /\ bf.st = "fetched"
    /\ doc' = IF bf.copy = 0 THEN doc ELSE EngineUpsert(bf.copy)
    /\ bf' = [bf EXCEPT !.st = "upserted"]
    /\ UNCHANGED <<tg, lv, notLive>>

\* sync_chat lines 327-341: flush() sends what the indexer has buffered,
\* then the chat is marked completed
SyncFlush ==
    /\ bf.st = "upserted"
    /\ doc' = AfterBatch(doc, lv.buffer)
    /\ lv' = [lv EXCEPT !.buffer = <<>>]
    /\ bf' = [bf EXCEPT !.st = "completed"]
    /\ UNCHANGED <<tg, notLive>>

\* the message was sent before the client ran, or message_handler has
\* just handed it to the indexer (client.py lines 64-86)
InitLv ==
    /\ InitManager(ApiCfg) /\ InitBuffer /\ InitJwtAuth(NewPyJwt)
    /\ InitBot /\ InitCheckpoint /\ InitWorker /\ InitStore
    /\ InitAccess({"private", "group"}) /\ InitPrivacy /\ InitLoop
    /\ tg = [version |-> 1, deleted |-> FALSE]
    /\ doc = NoDoc
    /\ lv \in {[buffer |-> b, flights |-> <<>>] : b \in {<<>>, <<1>>}}
    /\ bf = [st |-> "pending", copy |-> 0]

NextLv ==
    \/ EditMessage \/ DeletedMessage
    \/ LiveFlush
    \/ \E i \in 1..MaxEdits + 1 : LiveRpc(i)
    \/ SyncFetch \/ SyncUpsert \/ SyncFlush

SpecLv == InitLv /\ [][NextLv]_vars

\* every upsert the live handlers made has reached the engine
LiveFlushed == lv.buffer = <<>> /\ lv.flights = <<>>

\* C33: once the sync of the chat has completed and every live upsert of
\* the message has been flushed, the engine's document is the latest
\* version of the message
C33_Converges ==
    (bf.st = "completed" /\ LiveFlushed /\ ~tg.deleted)
       => (doc.exists /\ doc.version = tg.version)

\* C34: a message that was upserted through the indexer and deleted before
\* the buffer was flushed is marked deleted once the soft-delete and the
\* batch have both been applied (no backfill takes part)
C34_DeleteSticks ==
    (tg.deleted /\ LiveFlushed /\ bf.st = "pending" /\ doc.exists)
       => doc.is_deleted

\* C35: a step of sync_chat that marks the record completed has handed
\* everything that was left in message_batch to the engine in an answered
\* upsert_batch call
C35_CompletedAfterBatches ==
    [][\A t \in Configured :
          (/\ pc[t] = "sc_batch" /\ pc'[t] = "sv_lock"
           /\ objs'[loc[t].prog].status = "completed")
          => Docs(loc[t].chat, Range(FullBatch(loc[t]))) \subseteq g_acked']_vars

LoopLen == 4

\* lines 219-224, with get_chat_history about to yield the newest message
LoopInit(supports_batch) ==
    [pc |-> "loop", supports_batch |-> supports_batch, next_id |-> LoopLen,
     message_batch |-> <<>>, batch_count |-> 0, synced_count |-> 0,
     last_message_id |-> 0, error_count |-> 0, error_in_batch |-> FALSE,
     status |-> "in_progress", indexed |-> {}, flood |-> {}, faults |-> 0]

\* what an iteration meets: nothing, FloodWait out of the upsert call,
\* FloodWait out of progress_callback, or another exception out of the
\* upsert call
Outcomes == {"ok", "flood_upsert", "flood_callback", "error"}

\* lines 301-308: the except clause for other exceptions
LoopError(l) ==
    LET e == [l EXCEPT !.error_count = @ + 1, !.faults = @ + 1] IN
    IF ~SYNC_RETRY_ON_ERROR \/ e.error_count >= SYNC_MAX_RETRIES
    THEN [e EXCEPT !.error_in_batch = TRUE, !.pc = "tail"]
    ELSE e

\* lines 295-299: the except clause for FloodWait sleeps and goes on with
\* the next message of the history
LoopFloodWait(l, message) ==
    [l EXCEPT !.flood = @ \cup {message}, !.faults = @ + 1]

\* lines 237-247: upsert_batch answered, the progress updated
Upserted(l, batch) ==
    [l EXCEPT !.indexed = @ \cup Range(batch),
              !.synced_count = @ + Len(batch),
              !.last_message_id = batch[Len(batch)]]

\* lines 229-267: one iteration with upsert_batch
BatchIteration(l, outcome) ==
    LET message == l.next_id
        taken == [l EXCEPT !.next_id = @ - 1,
                           !.message_batch = Append(@, message),
                           !.batch_count = @ + 1]
        b == taken.message_batch
    IN  IF taken.batch_count < SYNC_BATCH_SIZE THEN taken
        ELSE IF outcome = "ok"
        THEN [Upserted(taken, b) EXCEPT !.message_batch = <<>>,
                                        !.batch_count = 0]
        ELSE IF outcome = "flood_upsert" THEN LoopFloodWait(taken, message)
        ELSE IF outcome = "flood_callback"
        THEN LoopFloodWait(Upserted(taken, b), message)
        ELSE LoopError(taken)

\* lines 268-293: one iteration with upsert
FallbackIteration(l, outcome) ==
    LET message == l.next_id
        taken == [l EXCEPT !.next_id = @ - 1]
        done == [taken EXCEPT !.indexed = @ \cup {message},
                              !.synced_count = @ + 1,
                              !.last_message_id = message,
                              !.batch_count = @ + 1]
    IN  IF outcome = "ok"
        THEN [done EXCEPT !.batch_count =
                 IF @ >= SYNC_BATCH_SIZE THEN 0 ELSE @]
        ELSE IF outcome = "flood_upsert" THEN LoopFloodWait(taken, message)
        ELSE IF outcome = "flood_callback" THEN LoopFloodWait(done, message)
        ELSE LoopError(taken)

\* the outcomes the iteration on the next message can meet
Possible(l, outcome) ==
    \/ outcome = "ok"
    \/ /\ l.faults < MaxFaults
       /\ IF l.supports_batch
          THEN l.batch_count + 1 >= SYNC_BATCH_SIZE
          ELSE outcome = "flood_callback"
                  => l.batch_count + 1 >= SYNC_BATCH_SIZE

notLoop == <<syncVars, bufVars, jwtVars, botVars, ckVars, wkVars, mqVars,
             acVars, privVars, liveVars>>

\* the for loop takes the next message; after the last one, or after a
\* break, the code behind the loop runs
Iteration(outcome) ==
    /\ lp.pc = "loop"
    /\ lp.next_id > 0
    /\ Possible(lp, outcome)
    /\ LET l == IF lp.supports_batch THEN BatchIteration(lp, outcome)
                ELSE FallbackIteration(lp, outcome)
       IN  lp' = IF l.next_id = 0 THEN [l EXCEPT !.pc = "tail"] ELSE l
    /\ UNCHANGED notLoop

\* lines 310-345: what is left in message_batch is sent unless the loop
\* was left by break, flush() is called and the final status set
AfterLoop(raises) ==
    /\ lp.pc = "tail"
    /\ LET sends == /\ lp.supports_batch /\ lp.message_batch # <<>>
                    /\ ~lp.error_in_batch
           l == IF ~sends THEN lp
                ELSE IF raises
                THEN [lp EXCEPT !.error_count = @ + Len(lp.message_batch),
                                !.faults = @ + 1]
                ELSE Upserted(lp, lp.message_batch)
       IN  /\ raises => (sends /\ lp.faults < MaxFaults)
           /\ lp' = [l EXCEPT !.pc = "done",
                              !.status = IF lp.error_in_batch THEN "failed"
                                         ELSE "completed"]
    /\ UNCHANGED notLoop

InitLp ==
    /\ InitManager(ApiCfg) /\ InitBuffer /\ InitJwtAuth(NewPyJwt)
    /\ InitBot /\ InitCheckpoint /\ InitWorker /\ InitStore
    /\ InitAccess({"private", "group"}) /\ InitPrivacy /\ InitLive
    /\ \E sb \in BOOLEAN : lp = LoopInit(sb)

NextLp ==
    \/ \E o \in Outcomes : Iteration(o)
    \/ \E r \in BOOLEAN : AfterLoop(r)

SpecLp == InitLp /\ [][NextLp]_vars

\* C37: a sync that ends as completed with no error counted has indexed
\* every message of the history, those included during whose iteration a
\* FloodWait was raised
C37_FloodWaitKeepsMessage ==
    (lp.pc = "done" /\ lp.status = "completed" /\ lp.error_count = 0)
       => (lp.flood \subseteq lp.indexed /\ 1..LoopLen \subseteq lp.indexed)

\* ------------------------------------------------------------------------
\* Paginated replies in groups are deleted once nobody touches them
\* (bot.py lines 835-837 and 914-967)
\* ------------------------------------------------------------------------
\* something will still act on message k: a callback handler is running for
\* it, a schedule_message_deletion task waits in the event loop, or one of
\* its delete_message tasks is neither cancelled nor finished
DeletionPending(k) ==
    \/ \E c \in Callbacks : cbs[c].st # "idle" /\ cbs[c].key = k
    \/ \E i \in 1..Len(ready) : ready[i] = [kind |-> "sched", id |-> k]
    \/ \E n \in TasksOf(k) : Live(n)

\* C38: a reply with a navigation keyboard that is shown in a group always
\* has a deletion ahead of it: after each callback interaction a deletion
\* task is scheduled again whatever the new page looks like, so the message
\* is deleted once the interactions stop
C38_DeletionRescheduled ==
    \A k \in MsgKeys : msg[k].st = "shown" => DeletionPending(k)

\* ------------------------------------------------------------------------
\* The size trigger and the time trigger of BufferedSearchEngine
\* (buffered_engine.py lines 84-162)
\* ------------------------------------------------------------------------
\* thread t is inside upsert, or inside a flush of the buffer
InFlush(t) ==
    bpc[t] \in {"u_body", "f_body", "fl_body", "fb_rpc", "fb_rel", "fb_reacq", "exit"}

\* C39: whenever no Upsert and no flush is in progress the buffer holds
\* fewer than batch_size documents and the buffered counter equals the
\* number of Upsert calls; an Upsert that brings the buffer to batch_size
\* hands the whole buffer to one batch; batches counts the batch RPCs that
\* were answered, one by one
C39_SizeTrigger ==
    /\ []((\A t \in BufThreads : ~InFlush(t)) =>
             /\ Len(buffer) < batch_size
             /\ stats.buffered = arrived)
    /\ [][/\ (bpc[P] = "u_body" /\ bpc'[P] # "u_body"
                                  /\ Len(buffer) + 1 >= batch_size) =>
                /\ bpc'[P] = "fb_rpc"
                /\ bloc'[P].messages_to_flush = Append(buffer, arrived)
                /\ buffer' = <<>>
          /\ \A t \in BufThreads :
                /\ (bpc[t] # "fb_reacq" /\ bpc'[t] = "fb_reacq") => bpc[t] = "fb_rpc"
                /\ (bpc[t] = "fb_reacq" /\ bpc'[t] # "fb_reacq") =>
                       stats'.batches = stats.batches + 1
          /\ stats'.batches # stats.batches =>
                \E t \in BufThreads : bpc[t] = "fb_reacq" /\ bpc'[t] = "exit"]_vars

\* the steps thread t takes by itself once a call has started: the flush
\* worker's loop, and the rest of an upsert, flush or shutdown call
BufThreadRuns(t) ==
    \/ (t = F /\ (FlushWorkerWake \/ FlushWorkerBody))
    \/ (t = P /\ UpsertBody)
    \/ (t = M /\ (ShutdownJoin \/ (bpc[M] = "sd_flush" /\ FlushLock)))
    \/ (t \in {F, M} /\ FlushIfAny(t))
    \/ \E failed \in 0..1 : RpcAnswers(t, failed)
    \/ Reacquire(t) \/ RpcRaises(t) \/ ExitWith(t)

\* SpecBuf with every thread scheduled fairly and every upsert_batch call
\* coming to an end
SpecBufFair ==
    SpecBuf /\ \A t \in BufThreads : WF_vars(BufThreadRuns(t))

\* document d waits in the buffer
InBuffer(d) == d \in Range(buffer)

\* document d is in a batch that is being handed to the search engine
Handed(d) ==
    \E t \in BufThreads : bpc[t] = "fb_rpc" /\ d \in Range(bloc[t].messages_to_flush)

\* C40: while the flush worker runs, a document that is in the buffer when
\* the last Upsert has returned is eventually handed to the search engine
\* in a batch, whatever the length of the buffer; a wake-up of the worker
\* that finds the buffer empty calls nothing
C40_TimeTrigger ==
    /\ \A d \in 1..MaxMsgs :
          []((InBuffer(d) /\ [](bpc[P] = "idle")) =>
                <>(Handed(d) \/ bpc[F] \in {"f_done", "f_dead"}))
    /\ [][(bpc[F] = "f_body" /\ bpc'[F] # "f_body" /\ buffer = <<>>) =>
             (bpc'[F] = "exit" /\ UNCHANGED <<buffer, bloc, stats>>)]_vars

====
